---- MODULE Spec2Model ----
(***************************************************************************)
(* A model of the restaurant data scraper: the Restaurant record and its   *)
(* merge rule (restaurant_scraper/models.py), the aggregation of adapter   *)
(* results by _deduplicate (restaurant_scraper/cli.py) and the paginated   *)
(* search of the Google Places adapter (scrapers/google_places.py).        *)
(*                                                                         *)
(* Strings are TLA+ strings, except venue_name, which is a tuple of        *)
(* one-character strings so that lower() and strip() can be computed.      *)
(* The optional float rating is <<>> for None and <<t>> for the number     *)
(* t/10 (<<45>> is 4.5, <<0>> is 0.0).                                     *)
(***************************************************************************)
EXTENDS Integers, Sequences, FiniteSets, TLC

VARIABLES
    \* ---- Restaurant.merge on a pair of records
    a0, b0,          \* the two records as constructed
    existing,        \* the object a, receiver of existing.merge(incoming)
    incoming,        \* the object b, argument of existing.merge(incoming)
    rexisting,       \* a second copy of b, receiver of the reverse merge
    rincoming,       \* a second copy of a, argument of the reverse merge
    before,          \* existing as it was before the last call on it
    mops,            \* the calls made on existing so far, in order
    rdone,           \* the reverse merge has been made
    \* ---- scrape: search phase and _deduplicate
    sourceResults,   \* what each adapter returns: a list of records per adapter
    heap,            \* the Restaurant objects created so far; an object is its index
    restaurants,     \* scrape's list `restaurants`, a list of objects
    nextSource,      \* the next adapter whose results are appended
    dpc,             \* position in scrape: "search", "dedup", "done", "exit"
    seen,            \* _deduplicate's dict, in insertion order: <<key, object>> pairs
    di,              \* _deduplicate's position in its input list
    dinput,          \* _deduplicate's argument (the list before deduplication)
    run,             \* 1 in the first run over sourceResults, 2 in the repeated run
    firstOutput,     \* the records the first run returned
    \* ---- GooglePlacesScraper._paginate_search
    max_results,     \* the argument max_results
    found,           \* the local list `restaurants` of _paginate_search
    next_page_token, \* the local next_page_token (NoToken for None)
    pagetoken,       \* params["pagetoken"] (NoToken when the key is absent)
    data,            \* the decoded response being handled (NoData outside)
    gpc,             \* position in _paginate_search
    provider,        \* how the provider behaves during this search
    lastEvent,       \* the last externally visible event: "none", "sleep", "request"
    waited,          \* time slept since the current token was received
    everSlept,       \* a sleep has occurred in this search
    sentToken,       \* the token carried by the last request
    errorSeen,       \* a page with a terminal status has been received
    foundAtError,    \* `found` when that page was received
    requestAfterError, \* a request was issued after that page
    \* ---- scrape: one run of the command
    srcOpt,          \* the option --source
    hasKey,          \* GOOGLE_PLACES_API_KEY is set
    enrichOpt,       \* the option --enrich/--no-enrich
    spc,             \* position in scrape
    ran,             \* the adapters whose search was called, in order
    raisedIn,        \* the adapters whose search raised
    collected,       \* scrape's list `restaurants`, as records
    exported,        \* the names of the records handed to export_to_csv
    \* ---- GooglePlacesScraper.enrich_restaurant
    drec,            \* the record passed in
    dbefore,         \* the record as it was before the call
    dresp,           \* what the details request gives
    dpos,            \* "call", "returned" or "raised"
    \* ---- WebsiteScraper.enrich_restaurant
    crec,            \* the record passed in
    cbefore,         \* the record as it was before the call
    cpc,             \* position in enrich_restaurant
    cslug,           \* the number of subpages tried so far
    attempted,       \* the URLs requested so far, in order
    outcomes,        \* what each request gave, in order
    pages,           \* the local list `pages` of _fetch_pages
    site,            \* how the site answers the requests that fail
    \* ---- _extract_email and _extract_owner on their own
    xhtml,           \* the pages whose markup is searched
    xtext,           \* their visible text, all_text
    xsite,           \* base_url
    xrec,            \* the record passed to _extract_owner
    xbefore,         \* the record as it was before the call
    xemail,          \* what _extract_email returned
    xdone,           \* the extractions made so far
    \* ---- HubSpotExporter.push_restaurants
    precords,        \* the argument restaurants, as the records' names
    batch_size,      \* the argument batch_size
    pidx,            \* the loop variable i
    ppc,             \* position in push_restaurants
    presults,        \* the dict results: created, failed, errors
    sent,            \* the batches posted so far, in order
    answers,         \* what each post gave, in order
    deltas,          \* what _create_batch returned for each batch, in order
    events,          \* the posts and sleeps so far, in order
    connected,       \* what test_connection returned, "untested" before
    \* ---- the enrichment, export and push phases of the command scrape
    hubspotOpt,      \* the option --hubspot-push
    epos,            \* the index of r in the running loop "for r in restaurants"
    trace,           \* the phases' steps so far, in order
    \* ---- YelpScraper.search_restaurants
    ymax,            \* the argument max_results
    ysite,           \* what the site answers to a request, by page number
    ystart,          \* the local start
    yrestaurants,    \* the local list restaurants, as the records' yelp_url
    yrequests,       \* the values of start requested so far, in order
    ypc,             \* position in search_restaurants
    \* ---- WebSearchScraper.search_restaurants
    wmax,            \* the argument max_results
    wanswers,        \* what the search engine answers to each of the three queries
    wsources,        \* the local list sources, filled query by query
    wresult,         \* the list returned
    wpc              \* position in search_restaurants

mergeVars == <<a0, b0, existing, incoming, rexisting, rincoming, before, mops, rdone>>
dedupVars == <<sourceResults, heap, restaurants, nextSource, dpc, seen, di, dinput,
               run, firstOutput>>
pageVars  == <<max_results, found, next_page_token, pagetoken, data, gpc, provider,
               lastEvent, waited, everSlept, sentToken, errorSeen, foundAtError,
               requestAfterError>>
pipeVars    == <<hubspotOpt, epos, trace>>
scrapeVars  == <<srcOpt, hasKey, enrichOpt, spc, ran, raisedIn, collected, exported,
                 pipeVars>>
detailVars  == <<drec, dbefore, dresp, dpos>>
crawlVars   == <<crec, cbefore, cpc, cslug, attempted, outcomes, pages, site>>
extractVars == <<xhtml, xtext, xsite, xrec, xbefore, xemail, xdone>>
pushVars    == <<precords, batch_size, pidx, ppc, presults, sent, answers, deltas,
                 events, connected>>
yelpVars    == <<ymax, ysite, ystart, yrestaurants, yrequests, ypc>>
webVars     == <<wmax, wanswers, wsources, wresult, wpc>>
moreVars    == <<pushVars, yelpVars, webVars>>
laterVars   == <<scrapeVars, detailVars, crawlVars, extractVars, moreVars>>
vars == <<mergeVars, dedupVars, pageVars, laterVars>>

(***************************************************************************)
(* Bounds of the model.                                                    *)
(***************************************************************************)
MaxMergeOps == 3     \* calls of merge made on one receiver
MaxRecords  == 3     \* records returned by all adapters together
MaxLimit    == 2     \* largest max_results
MaxPage     == 2     \* largest number of results on one page

(***************************************************************************)
(* The Restaurant record.                                                  *)
(***************************************************************************)
Fields ==
    {"venue_name", "website", "phone_number", "email_address", "venue_address",
     "city", "state", "zip_code", "country", "venue_owner", "cuisine_type",
     "rating", "price_level", "facebook", "instagram", "twitter", "linkedin",
     "tiktok", "yelp_url", "google_place_id", "hours_of_operation", "source"}

None == <<>>

\* The default of a field in the dataclass.
Default(f) ==
    IF f = "rating" THEN None ELSE IF f = "venue_name" THEN <<>> ELSE ""

\* Restaurant(**kw): the keyword arguments given, the defaults elsewhere.
Restaurant(kw) ==
    [f \in Fields |-> IF f \in DOMAIN kw THEN kw[f] ELSE Default(f)]

\* Python's truth value of a field's value: "" and None are false, and so is
\* the float 0.0.
Truthy(f, v) ==
    IF f = "rating" THEN v # None /\ v[1] # 0
    ELSE IF f = "venue_name" THEN v # <<>>
    ELSE v # ""

\* A variant of merge in which the incoming value wins whenever it is set.
MergeOverwrite(self, other) ==
    [f \in Fields |-> IF Truthy(f, other[f]) THEN other[f] ELSE self[f]]

\* A variant of merge that averages the ratings of the two records.
MergeAverageRating(self, other) ==
    [f \in Fields |->
        IF f = "rating" /\ self[f] # None /\ other[f] # None
        THEN <<(self[f][1] + other[f][1]) \div 2>>
        ELSE IF Truthy(f, other[f]) /\ ~Truthy(f, self[f]) THEN other[f] ELSE self[f]]

\* self.merge(other): the value of self after the call.
merge(self, other) ==
    [f \in Fields |->
        IF Truthy(f, other[f]) /\ ~Truthy(f, self[f]) THEN other[f] ELSE self[f]]

(***************************************************************************)
(* str.lower() and str.strip() on names.                                   *)
(***************************************************************************)
UpperCase == <<"A", "B", "C", "D", "E", "F", "G", "H", "I", "J", "K", "L", "M",
               "N", "O", "P", "Q", "R", "S", "T", "U", "V", "W", "X", "Y", "Z">>
LowerCase == <<"a", "b", "c", "d", "e", "f", "g", "h", "i", "j", "k", "l", "m",
               "n", "o", "p", "q", "r", "s", "t", "u", "v", "w", "x", "y", "z">>
Whitespace == {" ", "\t", "\n", "\r"}

LowerChar(c) ==
    IF \E i \in DOMAIN UpperCase : UpperCase[i] = c
    THEN LowerCase[CHOOSE i \in DOMAIN UpperCase : UpperCase[i] = c]
    ELSE c

Lower(s) == [i \in DOMAIN s |-> LowerChar(s[i])]

Strip(s) ==
    LET kept == {i \in DOMAIN s : s[i] \notin Whitespace}
    IN  IF kept = {} THEN <<>>
        ELSE LET lo == CHOOSE i \in kept : \A j \in kept : i <= j
                 hi == CHOOSE i \in kept : \A j \in kept : j <= i
             IN  SubSeq(s, lo, hi)

\* A variant of the key that keeps the surrounding whitespace.
KeyUnstripped(r) == Lower(r.venue_name)

\* The key of _deduplicate: r.venue_name.lower().strip().
Key(r) == Strip(Lower(r.venue_name))

(***************************************************************************)
(* Values the model takes its records from.                                *)
(***************************************************************************)
NameCafeA       == <<"C", "a", "f", "e", " ", "A">>
NameCafeALower  == <<"c", "a", "f", "e", " ", "a">>
NameCafeAUpper  == <<"C", "A", "F", "E", " ", "A">>
NameCafeAPadded == <<" ", "C", "a", "f", "e", " ", "A", " ">>
NameCafeB       == <<"C", "a", "f", "e", " ", "B">>
NameCafeBLower  == <<"c", "a", "f", "e", " ", "b">>

\* The records merge is applied to: the name, the rating and the provenance
\* tag vary one by one, the other fields together.
MergePool ==
    { [f \in Fields |->
          IF f = "venue_name" THEN n
          ELSE IF f = "rating" THEN rt
          ELSE IF f = "source" THEN src
          ELSE rest] :
      n \in {<<>>, NameCafeA, NameCafeALower},
      rt \in {None, <<0>>, <<40>>, <<45>>},
      src \in {"", "google_places", "yelp"},
      rest \in {"", "x", "y"} }

(***************************************************************************)
(* Initial values of the parts a specification does not exercise.          *)
(***************************************************************************)
NoToken == ""
NoData  == [status |-> "", results |-> <<>>, next_page_token |-> NoToken]

MergeIdle ==
    /\ a0 = Restaurant(<<>>) /\ b0 = Restaurant(<<>>)
    /\ existing = a0 /\ incoming = b0 /\ rexisting = b0 /\ rincoming = a0
    /\ before = a0 /\ mops = <<>> /\ rdone = FALSE

DedupIdle ==
    /\ sourceResults = <<>> /\ heap = <<>> /\ restaurants = <<>>
    /\ nextSource = 1 /\ dpc = "idle" /\ seen = <<>> /\ di = 1 /\ dinput = <<>>
    /\ run = 1 /\ firstOutput = <<>>

PageIdle ==
    /\ max_results = 0 /\ found = <<>> /\ next_page_token = NoToken
    /\ pagetoken = NoToken /\ data = NoData /\ gpc = "idle" /\ provider = "any"
    /\ lastEvent = "none" /\ waited = 0 /\ everSlept = FALSE /\ sentToken = NoToken
    /\ errorSeen = FALSE /\ foundAtError = <<>> /\ requestAfterError = FALSE

ScrapeIdle ==
    /\ srcOpt = "google" /\ hasKey = FALSE /\ enrichOpt = FALSE /\ spc = "idle"
    /\ ran = <<>> /\ raisedIn = {} /\ collected = <<>> /\ exported = <<>>
    /\ hubspotOpt = FALSE /\ epos = 0 /\ trace = <<>>

DetailIdle ==
    /\ drec = Restaurant(<<>>) /\ dbefore = Restaurant(<<>>)
    /\ dresp = [kind |-> "none"] /\ dpos = "idle"

CrawlIdle ==
    /\ crec = Restaurant(<<>>) /\ cbefore = Restaurant(<<>>) /\ cpc = "idle"
    /\ cslug = 0 /\ attempted = <<>> /\ outcomes = <<>> /\ pages = <<>> /\ site = "down"

ExtractIdle ==
    /\ xhtml = <<>> /\ xtext = "" /\ xsite = ""
    /\ xrec = Restaurant(<<>>) /\ xbefore = Restaurant(<<>>)
    /\ xemail = "" /\ xdone = {}

PushIdle ==
    /\ precords = <<>> /\ batch_size = 1 /\ pidx = 0 /\ ppc = "idle"
    /\ presults = [created |-> 0, failed |-> 0, errors |-> <<>>]
    /\ sent = <<>> /\ answers = <<>> /\ deltas = <<>> /\ events = <<>>
    /\ connected = "untested"

YelpIdle ==
    /\ ymax = 1 /\ ysite = <<>> /\ ystart = 0 /\ yrestaurants = <<>>
    /\ yrequests = <<>> /\ ypc = "idle"

WebIdle ==
    /\ wmax = 1 /\ wanswers = <<>> /\ wsources = <<>> /\ wresult = <<>> /\ wpc = "idle"

MoreIdle == PushIdle /\ YelpIdle /\ WebIdle

LaterIdle == ScrapeIdle /\ DetailIdle /\ CrawlIdle /\ ExtractIdle /\ MoreIdle

(***************************************************************************)
(* Restaurant.merge applied to a pair of records.                          *)
(***************************************************************************)
InitMerge ==
    /\ a0 \in MergePool /\ b0 \in MergePool
    /\ existing = a0 /\ incoming = b0
    /\ rexisting = b0 /\ rincoming = a0
    /\ before = a0 /\ mops = <<>> /\ rdone = FALSE
    /\ DedupIdle /\ PageIdle /\ LaterIdle

\* existing.merge(incoming)
MergeIncoming ==
    /\ Len(mops) < MaxMergeOps
    /\ before' = existing
    /\ existing' = merge(existing, incoming)
    /\ mops' = Append(mops, "merge")
    /\ UNCHANGED <<a0, b0, incoming, rexisting, rincoming, rdone, dedupVars, pageVars, laterVars>>

\* existing.merge(existing)
MergeSelf ==
    /\ Len(mops) < MaxMergeOps
    /\ before' = existing
    /\ existing' = merge(existing, existing)
    /\ mops' = Append(mops, "self")
    /\ UNCHANGED <<a0, b0, incoming, rexisting, rincoming, rdone, dedupVars, pageVars, laterVars>>

\* b.merge(a) on fresh copies of the two records
MergeReverse ==
    /\ ~rdone
    /\ rexisting' = merge(rexisting, rincoming)
    /\ rdone' = TRUE
    /\ UNCHANGED <<a0, b0, existing, incoming, rincoming, before, mops, dedupVars, pageVars, laterVars>>

NextMerge == MergeIncoming \/ MergeSelf \/ MergeReverse

SpecMerge == InitMerge /\ [][NextMerge]_vars

LastOp == IF mops = <<>> THEN "none" ELSE mops[Len(mops)]

\* The claims' notion of an empty field: the empty string, or no rating.
Empty(f, v) == v = Default(f)

NonEmptyFields(r) == {f \in Fields : ~Empty(f, r[f])}

\* C1: after existing.merge(incoming) every field of existing that was
\* non-empty has its previous value, and a field has incoming's value in place
\* of its previous one only if it was empty and incoming's is non-empty.
C1_GapFillOnly ==
    LastOp = "merge" =>
        \A f \in Fields :
            /\ ~Empty(f, before[f]) => existing[f] = before[f]
            /\ existing[f] # before[f] =>
                  /\ Empty(f, before[f])
                  /\ ~Empty(f, incoming[f])
                  /\ existing[f] = incoming[f]

\* C2: merging a record into itself changes no field, and merging the same
\* incoming record a second time changes no field.
C2_Idempotent ==
    /\ LastOp = "self" => existing = before
    /\ (Len(mops) >= 2 /\ mops[Len(mops)] = "merge" /\ mops[Len(mops) - 1] = "merge")
          => existing = before

\* A record with something set has been merged into itself, and then an
\* incoming record that had something to fill has been merged in twice.
C2_Witness ==
    /\ mops = <<"self", "merge", "merge">>
    /\ NonEmptyFields(a0) # {}
    /\ a0 # merge(a0, b0)
    /\ existing = before

\* C3: the fields that end up filled are the same whichever record is merged
\* into the other, and a field set in both keeps the value of the record
\* merged into.
C3_Commutative ==
    (mops = <<"merge">> /\ rdone) =>
        /\ NonEmptyFields(existing) = NonEmptyFields(rexisting)
        /\ \A f \in Fields :
              (~Empty(f, a0[f]) /\ ~Empty(f, b0[f])) =>
                  (existing[f] = a0[f] /\ rexisting[f] = b0[f])

(***************************************************************************)
(* scrape: the search phase appends what each adapter returns to the list  *)
(* `restaurants`, and _deduplicate reduces the list to one object per key. *)
(***************************************************************************)
NumAdapters == 3

CafeA == Restaurant([venue_name |-> NameCafeA])
CafeALowerPhone == Restaurant([venue_name |-> NameCafeALower, phone_number |-> "555-1234"])
CafeB == Restaurant([venue_name |-> NameCafeB])
CafeAPadded ==
    Restaurant([venue_name |-> NameCafeAPadded, phone_number |-> "555-9999",
                rating |-> <<45>>, source |-> "yelp"])
CafeAUpperZero ==
    Restaurant([venue_name |-> NameCafeAUpper, rating |-> <<0>>,
                google_place_id |-> "place-1", source |-> "google_places"])
CafeBLowerRated ==
    Restaurant([venue_name |-> NameCafeBLower, rating |-> <<40>>,
                website |-> "cafeb.example", source |-> "web_search"])

AdapterPool == {CafeA, CafeALowerPhone, CafeB, CafeAPadded, CafeAUpperZero, CafeBLowerRated}

InitAggregate ==
    /\ \E n \in 0..MaxRecords :
         \E flat \in [1..n -> AdapterPool] :
           \E c1 \in 0..n, c2 \in 0..n :
              /\ c1 <= c2
              /\ sourceResults = <<SubSeq(flat, 1, c1), SubSeq(flat, c1 + 1, c2),
                                   SubSeq(flat, c2 + 1, n)>>
    /\ heap = <<>> /\ restaurants = <<>> /\ nextSource = 1 /\ dpc = "search"
    /\ seen = <<>> /\ di = 1 /\ dinput = <<>> /\ run = 1 /\ firstOutput = <<>>
    /\ MergeIdle /\ PageIdle /\ LaterIdle

\* The records of a list of objects.
Values(objs) == [i \in DOMAIN objs |-> heap[objs[i]]]

\* restaurants.extend(<results of the next adapter>): the adapter's records
\* are new objects.
Extend ==
    /\ dpc = "search" /\ nextSource <= NumAdapters
    /\ heap' = heap \o sourceResults[nextSource]
    /\ restaurants' = restaurants \o
           [i \in 1..Len(sourceResults[nextSource]) |-> Len(heap) + i]
    /\ nextSource' = nextSource + 1
    /\ UNCHANGED <<sourceResults, dpc, seen, di, dinput, run, firstOutput,
                   mergeVars, pageVars, laterVars>>

\* if not restaurants: sys.exit(0)
NoResults ==
    /\ dpc = "search" /\ nextSource > NumAdapters /\ restaurants = <<>>
    /\ dpc' = "exit"
    /\ UNCHANGED <<sourceResults, heap, restaurants, nextSource, seen, di, dinput,
                   run, firstOutput, mergeVars, pageVars, laterVars>>

\* restaurants = _deduplicate(restaurants): entry, with seen = {}
DedupCall ==
    /\ dpc = "search" /\ nextSource > NumAdapters /\ restaurants # <<>>
    /\ dinput' = restaurants /\ seen' = <<>> /\ di' = 1 /\ dpc' = "dedup"
    /\ UNCHANGED <<sourceResults, heap, restaurants, nextSource, run, firstOutput,
                   mergeVars, pageVars, laterVars>>

SeenHas(key) == \E k \in DOMAIN seen : seen[k][1] = key
SeenGet(key) == seen[CHOOSE k \in DOMAIN seen : seen[k][1] = key][2]

\* one iteration of the loop, key not in seen: seen[key] = r
DedupNew ==
    /\ dpc = "dedup" /\ di <= Len(dinput)
    /\ ~SeenHas(Key(heap[dinput[di]]))
    /\ seen' = Append(seen, <<Key(heap[dinput[di]]), dinput[di]>>)
    /\ di' = di + 1
    /\ UNCHANGED <<sourceResults, heap, restaurants, nextSource, dpc, dinput, run,
                   firstOutput, mergeVars, pageVars, laterVars>>

\* A variant of the merging iteration in which the two objects fill each
\* other's gaps.
DedupMergeBothWays ==
    /\ dpc = "dedup" /\ di <= Len(dinput)
    /\ SeenHas(Key(heap[dinput[di]]))
    /\ LET tgt == SeenGet(Key(heap[dinput[di]]))
       IN  heap' = [heap EXCEPT ![tgt] = merge(heap[tgt], heap[dinput[di]]),
                                ![dinput[di]] = merge(heap[dinput[di]], heap[tgt])]
    /\ di' = di + 1
    /\ UNCHANGED <<sourceResults, restaurants, nextSource, dpc, seen, dinput, run,
                   firstOutput, mergeVars, pageVars, laterVars>>

\* one iteration of the loop, key in seen: seen[key].merge(r)
DedupMerge ==
    /\ dpc = "dedup" /\ di <= Len(dinput)
    /\ SeenHas(Key(heap[dinput[di]]))
    /\ LET tgt == SeenGet(Key(heap[dinput[di]]))
       IN  heap' = [heap EXCEPT ![tgt] = merge(heap[tgt], heap[dinput[di]])]
    /\ di' = di + 1
    /\ UNCHANGED <<sourceResults, restaurants, nextSource, dpc, seen, dinput, run,
                   firstOutput, mergeVars, pageVars, laterVars>>

Orderings(n) == {p \in [1..n -> 1..n] : \A i, j \in 1..n : p[i] = p[j] => i = j}

\* A variant of the return that lists the values in an unspecified order.
DedupReturnUnordered ==
    /\ dpc = "dedup" /\ di > Len(dinput)
    /\ \E p \in Orderings(Len(seen)) :
          restaurants' = [k \in 1..Len(seen) |-> seen[p[k]][2]]
    /\ dpc' = "done"
    /\ UNCHANGED <<sourceResults, heap, nextSource, seen, di, dinput, run,
                   firstOutput, mergeVars, pageVars, laterVars>>

\* return list(seen.values()), assigned to scrape's `restaurants`
DedupReturn ==
    /\ dpc = "dedup" /\ di > Len(dinput)
    /\ restaurants' = [k \in 1..Len(seen) |-> seen[k][2]]
    /\ dpc' = "done"
    /\ UNCHANGED <<sourceResults, heap, nextSource, seen, di, dinput, run,
                   firstOutput, mergeVars, pageVars, laterVars>>

\* The same command is run again: the adapters return the same records, as
\* new objects.
Rerun ==
    /\ dpc = "done" /\ run = 1
    /\ firstOutput' = Values(restaurants)
    /\ run' = 2
    /\ heap' = <<>> /\ restaurants' = <<>> /\ nextSource' = 1 /\ dpc' = "search"
    /\ seen' = <<>> /\ di' = 1 /\ dinput' = <<>>
    /\ UNCHANGED <<sourceResults, mergeVars, pageVars, laterVars>>

NextAggregate ==
    Extend \/ NoResults \/ DedupCall \/ DedupNew \/ DedupMerge \/ DedupReturn \/ Rerun

SpecAggregate == InitAggregate /\ [][NextAggregate]_vars

\* What the adapters returned, concatenated in adapter order.
Concatenated == sourceResults[1] \o sourceResults[2] \o sourceResults[3]

\* The records aggregation returned.
Output == Values(restaurants)

\* The positions of the concatenated input at which a key appears first.
FirstPositions ==
    {i \in DOMAIN Concatenated :
        \A j \in 1..(i - 1) : Key(Concatenated[j]) # Key(Concatenated[i])}

\* The k-th smallest element of a finite set of integers.
RECURSIVE Nth(_, _)
Nth(S, k) ==
    LET m == CHOOSE x \in S : \A y \in S : x <= y
    IN  IF k = 1 THEN m ELSE Nth(S \ {m}, k - 1)

\* Filling the gaps of a record: a field changes only if it is empty, and
\* then to the other record's value if that one is not empty.
GapFill(rec, other) ==
    [f \in Fields |->
        IF Empty(f, rec[f]) /\ ~Empty(f, other[f]) THEN other[f] ELSE rec[f]]

\* rec gap-filled by the records at positions from..Len of the input that
\* have the key `key`, in input order.
RECURSIVE GapFilledBy(_, _, _)
GapFilledBy(rec, key, from) ==
    IF from > Len(Concatenated) THEN rec
    ELSE IF Key(Concatenated[from]) = key
         THEN GapFilledBy(GapFill(rec, Concatenated[from]), key, from + 1)
         ELSE GapFilledBy(rec, key, from + 1)

\* C4: aggregation returns one record per distinct key, in the order of the
\* keys' first appearance, each being the first-seen record of its key
\* gap-filled by the later records of that key in input order.
C4_OnePerKeyGapFilled ==
    dpc = "done" =>
        /\ Len(Output) = Cardinality(FirstPositions)
        /\ \A k \in DOMAIN Output :
              LET first == Nth(FirstPositions, k)
              IN  Output[k] =
                      GapFilledBy(Concatenated[first], Key(Concatenated[first]), first + 1)

\* The structural part of C4 alone: one object per distinct key, in the order
\* of first appearance, the object being the first one of its key.
OnePerKeyInOrder ==
    dpc = "done" =>
        /\ Len(restaurants) = Cardinality(FirstPositions)
        /\ \A k \in DOMAIN restaurants : restaurants[k] = Nth(FirstPositions, k)

\* Two characters that differ at most in letter case.
SameLetter(c, d) ==
    \/ c = d
    \/ \E i \in DOMAIN UpperCase : {c, d} = {UpperCase[i], LowerCase[i]}

\* lo..hi is the part of s between its leading and its trailing whitespace.
Trimmed(s, lo, hi) ==
    /\ \A i \in DOMAIN s : (i < lo \/ i > hi) => s[i] \in Whitespace
    /\ \/ lo = hi + 1
       \/ lo <= hi /\ s[lo] \notin Whitespace /\ s[hi] \notin Whitespace

\* Two names that differ only in letter case or in leading and trailing
\* whitespace.
SameUpToCaseAndSpace(s, t) ==
    \E lo1 \in 1..(Len(s) + 1), lo2 \in 1..(Len(t) + 1) :
      \E hi1 \in (lo1 - 1)..Len(s), hi2 \in (lo2 - 1)..Len(t) :
        /\ Trimmed(s, lo1, hi1) /\ Trimmed(t, lo2, hi2)
        /\ hi1 - lo1 = hi2 - lo2
        /\ \A k \in 0..(hi1 - lo1) : SameLetter(s[lo1 + k], t[lo2 + k])

\* C5: records whose names differ only in letter case or in leading and
\* trailing whitespace collapse to a single record of the output: for every
\* input record the output holds exactly one record with such a name.
C5_CaseAndSpaceCollapse ==
    dpc = "done" =>
        \A i \in DOMAIN Concatenated :
            Cardinality({k \in DOMAIN Output :
                SameUpToCaseAndSpace(Output[k].venue_name, Concatenated[i].venue_name)}) = 1

\* "Cafe A", "cafe a" and " Cafe A " were all returned and aggregation left
\* one record.
C5_Witness ==
    /\ dpc = "done"
    /\ {NameCafeA, NameCafeALower, NameCafeAPadded} \subseteq
           {Concatenated[i].venue_name : i \in DOMAIN Concatenated}
    /\ Len(Output) = 1

\* The scenario of C6: what the three adapters return.
CafeScenario == <<(<<CafeA>>), (<<CafeALowerPhone>>), (<<CafeB>>)>>

\* C6: when three adapters return [Cafe A], [cafe a with phone 555-1234] and
\* [Cafe B], aggregation yields "Cafe A" with that phone and its own name,
\* then "Cafe B" unchanged.
C6_CafeScenario ==
    (dpc = "done" /\ sourceResults = CafeScenario) =>
        Output = <<[CafeA EXCEPT !["phone_number"] = "555-1234"], CafeB>>

C6_Witness ==
    /\ dpc = "done" /\ sourceResults = CafeScenario /\ run = 1
    /\ Len(Output) = 2 /\ Output[1].phone_number = "555-1234"

\* C7: a second run of aggregation on the same adapter results returns the
\* same sequence of records as the first.
C7_Deterministic ==
    (dpc = "done" /\ run = 2) => Output = firstOutput

\* A second run has finished on an input with two keys and a merge.
C7_Witness ==
    /\ dpc = "done" /\ run = 2
    /\ Len(Output) >= 2 /\ Len(dinput) > Len(Output)
    /\ Output = firstOutput

\* existing.merge(incoming) assigns to existing only
MergeLeavesIncoming == incoming = b0

\* C29: merge leaves every field of the incoming record as it was; once the
\* adapters' records are in the list, every object that is not the first of
\* its key keeps the field values the adapter gave it, and each object of the
\* output is the first input object of its key.
C29_OnlyFirstSeenModified ==
    /\ MergeLeavesIncoming
    /\ dpc \in {"dedup", "done"} =>
          /\ Len(heap) = Len(Concatenated)
          /\ \A i \in DOMAIN heap : i \notin FirstPositions => heap[i] = Concatenated[i]
    /\ dpc = "done" =>
          \A k \in DOMAIN restaurants :
              /\ restaurants[k] \in FirstPositions
              /\ Key(heap[restaurants[k]]) = Key(Concatenated[restaurants[k]])

\* A later object of a key had something to give: the first object of the key
\* was filled, the later one is as it came.
C29_Witness ==
    /\ dpc = "done"
    /\ \E i \in FirstPositions, j \in DOMAIN heap :
          /\ j \notin FirstPositions /\ Key(heap[j]) = Key(heap[i])
          /\ heap[i] # Concatenated[i]
          /\ heap[j] = Concatenated[j] /\ heap[j] # heap[i]
          /\ \E k \in DOMAIN restaurants : restaurants[k] = i

(***************************************************************************)
(* GooglePlacesScraper._paginate_search.  A token that is None and a token *)
(* that is the empty string are both false for the code and both NoToken.  *)
(***************************************************************************)
SleepSeconds == 2

PRICE_MAP == [p \in 0..4 |-> <<"Free", "$", "$$", "$$$", "$$$$">>[p + 1]]

\* dict.get(key, default)
Get(dict, key, default) == IF key \in DOMAIN dict THEN dict[key] ELSE default

\* _parse_basic(place)
ParseBasic(place) ==
    Restaurant([
        venue_name |-> Get(place, "name", <<>>),
        venue_address |-> Get(place, "vicinity", Get(place, "formatted_address", "")),
        rating |-> Get(place, "rating", None),
        price_level |-> IF "price_level" \in DOMAIN place /\ place.price_level \in DOMAIN PRICE_MAP
                        THEN PRICE_MAP[place.price_level] ELSE "",
        google_place_id |-> Get(place, "place_id", ""),
        source |-> "google_places"])

PlaceA == [name |-> NameCafeA, vicinity |-> "1 Main St", rating |-> <<45>>,
           price_level |-> 2, place_id |-> "place-1"]
PlaceB == [name |-> NameCafeB, formatted_address |-> "2 High St", place_id |-> "place-2"]
Places == {PlaceA, PlaceB}

OkStatuses == {"OK", "ZERO_RESULTS"}
Statuses   == OkStatuses \cup {"REQUEST_DENIED"}
Tokens     == {"token-1", "token-2"}
Providers  == {"any", "token forever", "token and items forever"}

\* The pages a provider may answer with.
Pages(p) ==
    [status : IF p = "any" THEN Statuses ELSE OkStatuses,
     results : UNION {[1..n -> Places] : n \in (IF p = "token and items forever" THEN 1 ELSE 0)..MaxPage},
     next_page_token : IF p = "any" THEN Tokens \cup {NoToken} ELSE Tokens]

InitPaginate ==
    /\ max_results \in 0..MaxLimit
    /\ provider \in Providers
    /\ found = <<>> /\ next_page_token = NoToken /\ pagetoken = NoToken
    /\ data = NoData /\ gpc = "loop"
    /\ lastEvent = "none" /\ waited = 0 /\ everSlept = FALSE /\ sentToken = NoToken
    /\ errorSeen = FALSE /\ foundAtError = <<>> /\ requestAfterError = FALSE
    /\ MergeIdle /\ DedupIdle /\ LaterIdle

\* while len(restaurants) < max_results: if next_page_token: params["pagetoken"] = ...
LoopTest ==
    /\ gpc = "loop"
    /\ IF Len(found) < max_results
       THEN IF next_page_token # NoToken
            THEN pagetoken' = next_page_token /\ gpc' = "sleep"
            ELSE pagetoken' = pagetoken /\ gpc' = "get"
       ELSE pagetoken' = pagetoken /\ gpc' = "return"
    /\ UNCHANGED <<max_results, found, next_page_token, data, provider, lastEvent,
                   waited, everSlept, sentToken, errorSeen, foundAtError,
                   requestAfterError, mergeVars, dedupVars, laterVars>>

\* A variant of the loop in which the delay is left out.
SleepSkipped ==
    /\ gpc = "sleep"
    /\ gpc' = "get"
    /\ UNCHANGED <<max_results, found, next_page_token, pagetoken, data, provider,
                   lastEvent, waited, everSlept, sentToken, errorSeen, foundAtError,
                   requestAfterError, mergeVars, dedupVars, laterVars>>

\* time.sleep(2)
Sleep ==
    /\ gpc = "sleep"
    /\ waited' = waited + SleepSeconds
    /\ everSlept' = TRUE
    /\ lastEvent' = "sleep"
    /\ gpc' = "get"
    /\ UNCHANGED <<max_results, found, next_page_token, pagetoken, data, provider,
                   sentToken, errorSeen, foundAtError, requestAfterError,
                   mergeVars, dedupVars, laterVars>>

\* resp = self.session.get(url, params=params); raise_for_status(); data = resp.json()
GetPage ==
    /\ gpc = "get"
    /\ data' \in Pages(provider)
    /\ sentToken' = pagetoken
    /\ lastEvent' = "request"
    /\ requestAfterError' = errorSeen
    /\ gpc' = "check"
    /\ UNCHANGED <<max_results, found, next_page_token, pagetoken, provider, waited,
                   everSlept, errorSeen, foundAtError, mergeVars, dedupVars, laterVars>>

\* the same request, failing in transport or with an HTTP error status: the
\* exception leaves _paginate_search
GetFails ==
    /\ gpc = "get" /\ provider = "any"
    /\ sentToken' = pagetoken
    /\ lastEvent' = "request"
    /\ requestAfterError' = errorSeen
    /\ gpc' = "raised"
    /\ UNCHANGED <<max_results, found, next_page_token, pagetoken, data, provider,
                   waited, everSlept, errorSeen, foundAtError, mergeVars, dedupVars, laterVars>>

\* A variant of the status test that logs the error and goes on.
CheckStatusNoBreak ==
    /\ gpc = "check"
    /\ errorSeen' = (errorSeen \/ data.status \notin OkStatuses)
    /\ foundAtError' = IF data.status \notin OkStatuses THEN found ELSE foundAtError
    /\ gpc' = "parse"
    /\ UNCHANGED <<max_results, found, next_page_token, pagetoken, data, provider,
                   lastEvent, waited, everSlept, sentToken, requestAfterError,
                   mergeVars, dedupVars, laterVars>>

\* if data.get("status") not in ("OK", "ZERO_RESULTS"): log, break
CheckStatus ==
    /\ gpc = "check"
    /\ IF data.status \notin OkStatuses
       THEN /\ errorSeen' = TRUE /\ foundAtError' = found
            /\ data' = NoData /\ gpc' = "return"
       ELSE /\ errorSeen' = errorSeen /\ foundAtError' = foundAtError
            /\ data' = data /\ gpc' = "parse"
    /\ UNCHANGED <<max_results, found, next_page_token, pagetoken, provider,
                   lastEvent, waited, everSlept, sentToken, requestAfterError,
                   mergeVars, dedupVars, laterVars>>

Min(x, y) == IF x <= y THEN x ELSE y

\* for place in results: stop at max_results, else append _parse_basic(place);
\* next_page_token = data.get("next_page_token"); if not next_page_token: break
ParsePage ==
    /\ gpc = "parse"
    /\ LET room == IF max_results > Len(found) THEN max_results - Len(found) ELSE 0
           take == Min(Len(data.results), room)
       IN  found' = found \o [i \in 1..take |-> ParseBasic(data.results[i])]
    /\ next_page_token' = data.next_page_token
    /\ waited' = 0
    /\ gpc' = IF data.next_page_token = NoToken THEN "return" ELSE "loop"
    /\ data' = NoData
    /\ UNCHANGED <<max_results, pagetoken, provider, lastEvent, everSlept, sentToken,
                   errorSeen, foundAtError, requestAfterError, mergeVars, dedupVars, laterVars>>

\* return restaurants
Return ==
    /\ gpc = "return"
    /\ gpc' = "done"
    /\ UNCHANGED <<max_results, found, next_page_token, pagetoken, data, provider,
                   lastEvent, waited, everSlept, sentToken, errorSeen, foundAtError,
                   requestAfterError, mergeVars, dedupVars, laterVars>>

NextPaginate ==
    LoopTest \/ Sleep \/ GetPage \/ GetFails \/ CheckStatus \/ ParsePage \/ Return

SpecPaginate == InitPaginate /\ [][NextPaginate]_vars

\* The search runs on one thread and nothing but its own steps delays it.
SpecPaginateFair == SpecPaginate /\ WF_vars(NextPaginate)

\* C8: against a provider that returns a continuation token on every page,
\* whatever the number of items on each page, the search eventually returns,
\* with at most max_results records.
C8_Terminates ==
    (provider = "token forever") => <>(gpc = "done" /\ Len(found) <= max_results)

\* The same when every page holds at least one item.
TerminatesOnNonEmptyPages ==
    (provider = "token and items forever") => <>(gpc = "done" /\ Len(found) <= max_results)

\* The search never holds more than max_results records.
AtMostMaxResults == Len(found) <= max_results

\* C9: a request that carries a continuation token is issued right after the
\* delay of 2, slept since that token was received, and the first request,
\* which carries no token, is issued with no delay before it.
C9_DelayBeforeToken ==
    gpc = "get" =>
        IF pagetoken # NoToken
        THEN lastEvent = "sleep" /\ waited = 2
        ELSE lastEvent = "none" /\ ~everSlept

\* A request with a token is about to be issued, after a page of results.
C9_Witness ==
    /\ gpc = "get" /\ pagetoken # NoToken /\ Len(found) >= 1
    /\ lastEvent = "sleep"

\* C10: after a page with a status other than OK or ZERO_RESULTS the search
\* issues no request, raises nothing and returns the records it had when the
\* page arrived.
C10_ErrorStatusStops ==
    errorSeen =>
        /\ gpc \in {"return", "done"}
        /\ found = foundAtError
        /\ ~requestAfterError

\* The search has returned a record of an earlier page after a failing page.
C10_Witness ==
    /\ errorSeen /\ gpc = "done"
    /\ Len(found) >= 1 /\ sentToken # NoToken

(***************************************************************************)
(* scrape, one run of the command: the search phase with its options, the  *)
(* deduplication, the enrichment phases and the CSV export.  What each     *)
(* adapter's search gives is chosen from what the adapter can do: the      *)
(* Google search returns a list or lets a request's exception out          *)
(* (GetFails); the Yelp and the web search catch theirs and return.        *)
(***************************************************************************)
\* _deduplicate as a function of the list of records.
RECURSIVE DeduplicateFrom(_, _, _)
DeduplicateFrom(list, i, acc) ==
    IF i > Len(list) THEN acc
    ELSE IF \E j \in DOMAIN acc : Key(acc[j]) = Key(list[i])
         THEN LET j == CHOOSE j \in DOMAIN acc : Key(acc[j]) = Key(list[i])
              IN  DeduplicateFrom(list, i + 1, [acc EXCEPT ![j] = merge(acc[j], list[i])])
         ELSE DeduplicateFrom(list, i + 1, Append(acc, list[i]))

Deduplicate(list) == DeduplicateFrom(list, 1, <<>>)

\* The stepwise _deduplicate and the function agree.
DeduplicateAgrees == dpc = "done" => Output = Deduplicate(Concatenated)

NameTrattoria == <<"T", "r", "a", "t">>

YelpCafeA == Restaurant([venue_name |-> NameCafeALower,
                         yelp_url |-> "https://www.yelp.com/biz/cafe-a", source |-> "yelp"])
YelpTrattoria == Restaurant([venue_name |-> NameTrattoria,
                             yelp_url |-> "https://www.yelp.com/biz/trat", source |-> "yelp"])
WebCafeB == Restaurant([venue_name |-> NameCafeB, website |-> "https://www.ab.co",
                        source |-> "web_search"])

SourceOptions == {"google", "yelp", "web", "both"}
GoogleLists == {<<>>, <<ParseBasic(PlaceA)>>, <<ParseBasic(PlaceA), ParseBasic(PlaceB)>>}
YelpLists   == {<<>>, <<YelpCafeA>>, <<YelpTrattoria, YelpCafeA>>}
WebLists    == {<<>>, <<WebCafeB>>}

InitScrape ==
    /\ srcOpt \in SourceOptions /\ hasKey \in BOOLEAN /\ enrichOpt \in BOOLEAN
    /\ hubspotOpt \in BOOLEAN
    /\ spc = "google" /\ ran = <<>> /\ raisedIn = {} /\ collected = <<>> /\ exported = <<>>
    /\ epos = 0 /\ trace = <<>>
    /\ MergeIdle /\ DedupIdle /\ PageIdle /\ DetailIdle /\ CrawlIdle /\ ExtractIdle /\ MoreIdle

scrapeRest == <<mergeVars, dedupVars, pageVars, detailVars, crawlVars, extractVars, moreVars>>

\* Step(kind, idx): one step of the phases, as it is kept in trace
Step(kind, idx) == [kind |-> kind, idx |-> idx]

\* source is neither "google" nor "both"
GoogleSkipped ==
    /\ spc = "google" /\ srcOpt \notin {"google", "both"}
    /\ spc' = "yelp"
    /\ UNCHANGED <<srcOpt, hasKey, enrichOpt, ran, raisedIn, collected, exported, pipeVars, scrapeRest>>

\* A variant in which the missing key ends the run whatever the source is.
GoogleNoKeyAlwaysFatal ==
    /\ spc = "google" /\ srcOpt \in {"google", "both"} /\ ~hasKey
    /\ spc' = "exit1"
    /\ UNCHANGED <<srcOpt, hasKey, enrichOpt, ran, raisedIn, collected, exported, pipeVars, scrapeRest>>

\* no API key: the error is printed, and the run ends if source is "google"
GoogleNoKey ==
    /\ spc = "google" /\ srcOpt \in {"google", "both"} /\ ~hasKey
    /\ spc' = IF srcOpt = "google" THEN "exit1" ELSE "yelp"
    /\ UNCHANGED <<srcOpt, hasKey, enrichOpt, ran, raisedIn, collected, exported, pipeVars, scrapeRest>>

\* google.search_restaurants(...) returns; restaurants.extend(google_results)
GoogleReturns ==
    /\ spc = "google" /\ srcOpt \in {"google", "both"} /\ hasKey
    /\ \E res \in GoogleLists : collected' = collected \o res
    /\ trace' = Append(trace, Step("search", 0))
    /\ ran' = Append(ran, "google")
    /\ spc' = "yelp"
    /\ UNCHANGED <<srcOpt, hasKey, enrichOpt, raisedIn, exported, hubspotOpt, epos, scrapeRest>>

\* google.search_restaurants(...) raises: nothing in scrape catches it
GoogleRaises ==
    /\ spc = "google" /\ srcOpt \in {"google", "both"} /\ hasKey
    /\ ran' = Append(ran, "google")
    /\ raisedIn' = raisedIn \cup {"google"}
    /\ spc' = "crashed"
    /\ UNCHANGED <<srcOpt, hasKey, enrichOpt, collected, exported, pipeVars, scrapeRest>>

YelpSkipped ==
    /\ spc = "yelp" /\ srcOpt \notin {"yelp", "both"}
    /\ spc' = "web"
    /\ UNCHANGED <<srcOpt, hasKey, enrichOpt, ran, raisedIn, collected, exported, pipeVars, scrapeRest>>

\* yelp.search_restaurants(...) returns; restaurants.extend(yelp_results)
YelpReturns ==
    /\ spc = "yelp" /\ srcOpt \in {"yelp", "both"}
    /\ \E res \in YelpLists : collected' = collected \o res
    /\ trace' = Append(trace, Step("search", 0))
    /\ ran' = Append(ran, "yelp")
    /\ spc' = "web"
    /\ UNCHANGED <<srcOpt, hasKey, enrichOpt, raisedIn, exported, hubspotOpt, epos, scrapeRest>>

WebSkipped ==
    /\ spc = "web" /\ srcOpt # "web"
    /\ spc' = "check"
    /\ UNCHANGED <<srcOpt, hasKey, enrichOpt, ran, raisedIn, collected, exported, pipeVars, scrapeRest>>

\* web.search_restaurants(...) returns; restaurants.extend(web_results)
WebReturns ==
    /\ spc = "web" /\ srcOpt = "web"
    /\ \E res \in WebLists : collected' = collected \o res
    /\ trace' = Append(trace, Step("search", 0))
    /\ ran' = Append(ran, "web")
    /\ spc' = "check"
    /\ UNCHANGED <<srcOpt, hasKey, enrichOpt, raisedIn, exported, hubspotOpt, epos, scrapeRest>>

\* if not restaurants: sys.exit(0); else restaurants = _deduplicate(restaurants)
CheckAndDeduplicate ==
    /\ spc = "check"
    /\ IF collected = <<>>
       THEN spc' = "exit0" /\ collected' = collected /\ trace' = trace
       ELSE /\ spc' = "enrich" /\ collected' = Deduplicate(collected)
            /\ trace' = Append(trace, Step("deduplicate", 0))
    /\ UNCHANGED <<srcOpt, hasKey, enrichOpt, ran, raisedIn, exported, hubspotOpt, epos,
                   scrapeRest>>

\* "if enrich:" and "if api_key:", the header of the enrichment phase
EnrichBegin ==
    /\ spc = "enrich" /\ enrichOpt
    /\ spc' = IF hasKey THEN "details" ELSE "crawl"
    /\ epos' = 1
    /\ UNCHANGED <<srcOpt, hasKey, enrichOpt, ran, raisedIn, collected, exported,
                   hubspotOpt, trace, scrapeRest>>

\* "if r.google_place_id:" is false for the record of this turn
DetailsSkip ==
    /\ spc = "details" /\ epos <= Len(collected)
    /\ collected[epos].google_place_id = ""
    /\ epos' = epos + 1
    /\ UNCHANGED <<srcOpt, hasKey, enrichOpt, spc, ran, raisedIn, collected, exported,
                   hubspotOpt, trace, scrapeRest>>

\* google.enrich_restaurant(r) returns
DetailsReturn ==
    /\ spc = "details" /\ epos <= Len(collected)
    /\ collected[epos].google_place_id # ""
    /\ trace' = Append(trace, Step("details", epos))
    /\ epos' = epos + 1
    /\ UNCHANGED <<srcOpt, hasKey, enrichOpt, spc, ran, raisedIn, collected, exported,
                   hubspotOpt, scrapeRest>>

\* google.enrich_restaurant(r) raises on its request: nothing catches it
DetailsRaise ==
    /\ spc = "details" /\ epos <= Len(collected)
    /\ collected[epos].google_place_id # ""
    /\ trace' = Append(trace, Step("details_raised", epos))
    /\ spc' = "crashed"
    /\ UNCHANGED <<srcOpt, hasKey, enrichOpt, ran, raisedIn, collected, exported,
                   hubspotOpt, epos, scrapeRest>>

\* the loop over the details ends; ws = WebsiteScraper()
DetailsDone ==
    /\ spc = "details" /\ epos > Len(collected)
    /\ spc' = "crawl" /\ epos' = 1
    /\ UNCHANGED <<srcOpt, hasKey, enrichOpt, ran, raisedIn, collected, exported,
                   hubspotOpt, trace, scrapeRest>>

\* ws.enrich_restaurant(r), which catches the failures of its requests
CrawlRecord ==
    /\ spc = "crawl" /\ epos <= Len(collected)
    /\ trace' = Append(trace, Step("crawl", epos))
    /\ epos' = epos + 1
    /\ UNCHANGED <<srcOpt, hasKey, enrichOpt, spc, ran, raisedIn, collected, exported,
                   hubspotOpt, scrapeRest>>

\* --no-enrich, or the enrichment phases run to their end.  The phases leave
\* the list and the names as they are; what they do to the other fields is
\* modelled by EnrichDetails and by the crawl.
EnrichmentDone ==
    /\ \/ spc = "enrich" /\ ~enrichOpt
       \/ spc = "crawl" /\ epos > Len(collected)
    /\ spc' = "export"
    /\ UNCHANGED <<srcOpt, hasKey, enrichOpt, ran, raisedIn, collected, exported, pipeVars,
                   scrapeRest>>

\* export_to_csv(restaurants, output, ...)
ExportCsv ==
    /\ spc = "export"
    /\ exported' = [i \in DOMAIN collected |-> collected[i].venue_name]
    /\ trace' = Append(trace, Step("export", 0))
    /\ spc' = "hubspot"
    /\ UNCHANGED <<srcOpt, hasKey, enrichOpt, ran, raisedIn, collected, hubspotOpt, epos,
                   scrapeRest>>

\* "if hubspot_push:" is false
HubspotSkipped ==
    /\ spc = "hubspot" /\ ~hubspotOpt
    /\ spc' = "done"
    /\ UNCHANGED <<srcOpt, hasKey, enrichOpt, ran, raisedIn, collected, exported, pipeVars,
                   scrapeRest>>

\* HUBSPOT_API_KEY is not set, or test_connection() is false: sys.exit(1)
HubspotRefused ==
    /\ spc = "hubspot" /\ hubspotOpt
    /\ spc' = "exit1_hubspot"
    /\ UNCHANGED <<srcOpt, hasKey, enrichOpt, ran, raisedIn, collected, exported, pipeVars,
                   scrapeRest>>

\* hs.push_restaurants(restaurants)
HubspotPush ==
    /\ spc = "hubspot" /\ hubspotOpt
    /\ trace' = Append(trace, Step("push", 0))
    /\ spc' = "done"
    /\ UNCHANGED <<srcOpt, hasKey, enrichOpt, ran, raisedIn, collected, exported,
                   hubspotOpt, epos, scrapeRest>>

NextScrape ==
    \/ GoogleSkipped \/ GoogleNoKey \/ GoogleReturns \/ GoogleRaises
    \/ YelpSkipped \/ YelpReturns \/ WebSkipped \/ WebReturns
    \/ CheckAndDeduplicate
    \/ EnrichBegin \/ DetailsSkip \/ DetailsReturn \/ DetailsRaise \/ DetailsDone
    \/ CrawlRecord \/ EnrichmentDone
    \/ ExportCsv \/ HubspotSkipped \/ HubspotRefused \/ HubspotPush

SpecScrape == InitScrape /\ [][NextScrape]_vars

ScrapeEnded == spc \in {"done", "exit0", "exit1", "exit1_hubspot", "crashed"}

\* C11: a transport failure or an HTTP error status on a page request never
\* leaves the adapter's search as an exception (stated for the structured-API
\* adapter, whose search is modelled request by request).
C11_FailureCaught == gpc # "raised"

\* C12: with source "both", when the search of the structured-API adapter
\* fails, the scraped-listing adapter is still run and the run goes on to
\* deduplication and export.
C12_FailureIsolated ==
    (ScrapeEnded /\ srcOpt = "both" /\ "google" \in raisedIn) =>
        /\ \E i \in DOMAIN ran : ran[i] = "yelp"
        /\ spc \in {"done", "exit0"}

\* the steps of one kind made so far
StepsOf(kind) == {i \in DOMAIN trace : trace[i].kind = kind}

\* C25: a missing key of the structured API ends the run in error only when
\* source is "google", and then before any search; with source "both" the
\* scraped-listing search still runs and what it found is deduplicated and
\* exported; with source "yelp" or "web" the run never ends at that error.
C25_MissingKeyFatalOnlyForGoogle ==
    /\ spc = "exit1" => srcOpt = "google" /\ ~hasKey /\ ran = <<>> /\ trace = <<>>
    /\ (srcOpt = "google" /\ ~hasKey /\ spc # "google") => spc = "exit1"
    /\ (srcOpt = "both" /\ ~hasKey /\ ScrapeEnded) =>
          /\ ran = <<"yelp">>
          /\ spc \notin {"exit1", "crashed"}
          /\ collected # <<>> =>
                /\ StepsOf("export") # {}
                /\ exported = [i \in DOMAIN collected |-> collected[i].venue_name]
    /\ (srcOpt \in {"yelp", "web"} /\ ~hasKey) => spc \notin {"exit1", "crashed"}

\* source "both" without the key: the listing search found records and they
\* were exported
C25_Witness ==
    /\ srcOpt = "both" /\ ~hasKey /\ spc = "done"
    /\ ran = <<"yelp">> /\ Len(exported) = 2

\* the place of a kind of step in the order of the phases
PhaseRank(kind) ==
    CASE kind = "search" -> 1
      [] kind = "deduplicate" -> 2
      [] kind \in {"details", "details_raised"} -> 3
      [] kind = "crawl" -> 4
      [] kind = "export" -> 5
      [] kind = "push" -> 6

\* the order of the phases, and that export waits for the whole enrichment
PipelineOrdered ==
    /\ \A i, j \in DOMAIN trace :
          i < j => PhaseRank(trace[i].kind) <= PhaseRank(trace[j].kind)
    /\ \A i, j \in StepsOf("crawl") :
          i # j => Key(collected[trace[i].idx]) # Key(collected[trace[j].idx])
    /\ (StepsOf("export") # {} /\ enrichOpt) =>
          /\ \A r \in DOMAIN collected : \E i \in StepsOf("crawl") : trace[i].idx = r
          /\ hasKey => \A r \in DOMAIN collected :
                collected[r].google_place_id # "" =>
                    \E i \in StepsOf("details") : trace[i].idx = r

\* a details request that failed for one record leaves the other records
\* enriched and the list exported
DetailFailureIsolated ==
    (ScrapeEnded /\ StepsOf("details_raised") # {}) =>
        /\ \A r \in DOMAIN collected : \E i \in StepsOf("crawl") : trace[i].idx = r
        /\ \A r \in DOMAIN collected :
              collected[r].google_place_id # "" =>
                  \E i \in StepsOf("details") \cup StepsOf("details_raised") :
                      trace[i].idx = r
        /\ StepsOf("export") # {}

\* C28: the searches come before deduplication, deduplication before any
\* enrichment, the details of all records before the crawl of any record, and
\* export and push after all enrichment; each key is crawled at most once;
\* and a failed details request for one record prevents neither the
\* enrichment of the other records nor the export.
C28_PipelineOrder == PipelineOrdered /\ DetailFailureIsolated

(***************************************************************************)
(* GooglePlacesScraper.enrich_restaurant: one call on one record.          *)
(***************************************************************************)
\* " | ".join(hours)
RECURSIVE Join(_, _)
Join(sep, list) ==
    IF list = <<>> THEN ""
    ELSE IF Len(list) = 1 THEN list[1]
    ELSE list[1] \o sep \o Join(sep, Tail(list))

\* _parse_address_components(components, restaurant)
RECURSIVE ParseAddressComponents(_, _)
ParseAddressComponents(components, restaurant) ==
    IF components = <<>> THEN restaurant
    ELSE LET comp  == Head(components)
             types == Get(comp, "types", {})
             r == IF "locality" \in types
                      THEN [restaurant EXCEPT !.city = comp.long_name]
                  ELSE IF "administrative_area_level_1" \in types
                      THEN [restaurant EXCEPT !.state = comp.short_name]
                  ELSE IF "postal_code" \in types
                      THEN [restaurant EXCEPT !.zip_code = comp.long_name]
                  ELSE IF "country" \in types
                      THEN [restaurant EXCEPT !.country = comp.long_name]
                  ELSE restaurant
         IN ParseAddressComponents(Tail(components), r)

\* The assignments of enrich_restaurant once the status is "OK".
EnrichDetails(restaurant, result) ==
    LET rating == Get(result, "rating", None)
        hours  == Get(Get(result, "opening_hours", <<>>), "weekday_text", <<>>)
        r1 == [restaurant EXCEPT
                 !.phone_number  = Get(result, "formatted_phone_number", @),
                 !.website       = Get(result, "website", @),
                 !.venue_address = Get(result, "formatted_address", @)]
        r2 == IF "price_level" \in DOMAIN result
              THEN [r1 EXCEPT !.price_level = Get(PRICE_MAP, result.price_level, "")]
              ELSE r1
        r3 == IF rating # None THEN [r2 EXCEPT !.rating = rating] ELSE r2
        r4 == IF hours # <<>>
              THEN [r3 EXCEPT !.hours_of_operation = Join(" | ", hours)] ELSE r3
    IN ParseAddressComponents(Get(result, "address_components", <<>>), r4)

\* The records enrichment is called on: fresh from a search, fully populated,
\* populated without a place id, and a record with a rating of zero.
DetailFields ==
    {"phone_number", "website", "venue_address", "price_level", "rating",
     "hours_of_operation", "city", "state", "zip_code", "country"}
FreshRecord == ParseBasic(PlaceB)
PopulatedRecord ==
    Restaurant([venue_name |-> NameCafeA, google_place_id |-> "place-1",
                phone_number |-> "555-0100", website |-> "https://a.example",
                venue_address |-> "1 Main St", price_level |-> "$$",
                rating |-> <<45>>, hours_of_operation |-> "Daily 8-8",
                city |-> "Austin", state |-> "TX", zip_code |-> "78701",
                country |-> "United States", source |-> "google_places"])
NoPlaceIdRecord == [PopulatedRecord EXCEPT !.google_place_id = "", !.source = "yelp"]
DetailRecords == {FreshRecord, PopulatedRecord, NoPlaceIdRecord}

\* The details the provider may answer with. Every key of a result is
\* optional; the price level may lie outside 0..4.
LocalityComponent ==
    [types |-> {"locality", "political"}, long_name |-> "Dallas", short_name |-> "Dallas"]
RegionComponent ==
    [types |-> {"administrative_area_level_1", "political"},
     long_name |-> "Oklahoma", short_name |-> "OK"]
PostalComponent ==
    [types |-> {"postal_code"}, long_name |-> "75201", short_name |-> "75201"]
CountryComponent ==
    [types |-> {"country", "political"}, long_name |-> "Canada", short_name |-> "CA"]
StreetComponent ==
    [types |-> {"route"}, long_name |-> "Elm Street", short_name |-> "Elm St"]
ComponentLists ==
    {<<StreetComponent, LocalityComponent, RegionComponent, CountryComponent,
       PostalComponent>>,
     <<StreetComponent>>}
FullResults ==
    {[formatted_phone_number |-> "555-0199", website |-> "https://b.example",
      formatted_address |-> "9 Elm St, Dallas", price_level |-> price,
      rating |-> rating, opening_hours |-> hours, address_components |-> comps] :
        price \in {3, 9}, rating \in {<<0>>, <<38>>},
        hours \in {[weekday_text |-> <<"Mon 9-5", "Tue 9-5">>], [open_now |-> TRUE]},
        comps \in ComponentLists}
ResultKeys ==
    {"formatted_phone_number", "website", "formatted_address", "price_level",
     "rating", "opening_hours", "address_components"}
DetailResults ==
    {[k \in keys |-> full[k]] : full \in FullResults, keys \in SUBSET ResultKeys}
DetailStatuses == {"OK", "NOT_FOUND"}

detailRest == <<mergeVars, dedupVars, pageVars, scrapeVars, crawlVars, extractVars, moreVars>>

InitDetails ==
    /\ drec \in DetailRecords /\ dbefore = drec
    /\ dresp = [kind |-> "none"] /\ dpos = "call"
    /\ MergeIdle /\ DedupIdle /\ PageIdle /\ ScrapeIdle /\ CrawlIdle /\ ExtractIdle /\ MoreIdle

\* if not restaurant.google_place_id: return restaurant
EnrichNoPlaceId ==
    /\ dpos = "call" /\ drec.google_place_id = ""
    /\ dpos' = "returned"
    /\ UNCHANGED <<drec, dbefore, dresp, detailRest>>

\* session.get or raise_for_status raises: nothing in enrich_restaurant catches it
EnrichRaises ==
    /\ dpos = "call" /\ drec.google_place_id # ""
    /\ dresp' = [kind |-> "exception"]
    /\ dpos' = "raised"
    /\ UNCHANGED <<drec, dbefore, detailRest>>

\* the request is answered with a status and, when the status is "OK", a result
EnrichAnswered ==
    /\ dpos = "call" /\ drec.google_place_id # ""
    /\ \E status \in DetailStatuses, result \in DetailResults :
        /\ dresp' = [kind |-> "json", status |-> status, result |-> result]
        /\ drec' = IF status # "OK" THEN drec ELSE EnrichDetails(drec, result)
    /\ dpos' = "returned"
    /\ UNCHANGED <<dbefore, detailRest>>

NextDetails == EnrichNoPlaceId \/ EnrichRaises \/ EnrichAnswered

SpecDetails == InitDetails /\ [][NextDetails]_vars

\* C13: enrichment by provider details is gap-fill only: each of the ten
\* fields it handles that was non-empty before the call has the same value
\* after it, whatever the details response contains.
C13_DetailsGapFillOnly ==
    dpos = "returned" =>
        \A f \in DetailFields : ~Empty(f, dbefore[f]) => drec[f] = dbefore[f]

(***************************************************************************)
(* Operations of str and re on strings. A character is a string of length  *)
(* one; positions count from 1; a position of 0 stands for "no match".     *)
(***************************************************************************)
Letters == {UpperCase[i] : i \in DOMAIN UpperCase} \cup {LowerCase[i] : i \in DOMAIN LowerCase}
Digits  == {"0", "1", "2", "3", "4", "5", "6", "7", "8", "9"}

Least(S) == CHOOSE i \in S : \A j \in S : i <= j

\* s[i-1:i]
Char(s, i) == IF i \in 1..Len(s) THEN SubSeq(s, i, i) ELSE ""

\* s[i-1:]
From(s, i) == IF i > Len(s) THEN "" ELSE SubSeq(s, i, Len(s))

\* s.startswith(p, i-1)
StartsWithAt(s, i, p) == i + Len(p) - 1 <= Len(s) /\ SubSeq(s, i, i + Len(p) - 1) = p

\* s.startswith(p)
StartsWith(s, p) == StartsWithAt(s, 1, p)

\* s.endswith(p)
EndsWith(s, p) == Len(p) <= Len(s) /\ StartsWithAt(s, Len(s) - Len(p) + 1, p)

\* s.find(sub) + 1
Find(s, sub) ==
    LET at == {i \in 1..(Len(s) + 1) : StartsWithAt(s, i, sub)}
    IN  IF at = {} THEN 0 ELSE Least(at)

\* sub in s
Contains(s, sub) == Find(s, sub) # 0

\* s.replace(old, new), for a non-empty old
RECURSIVE Replace(_, _, _)
Replace(s, old, new) ==
    LET i == Find(s, old)
    IN  IF i = 0 THEN s
        ELSE SubSeq(s, 1, i - 1) \o new \o Replace(From(s, i + Len(old)), old, new)

\* s.split(sep)[0]
SplitFirst(s, sep) ==
    LET i == Find(s, sep) IN IF i = 0 THEN s ELSE SubSeq(s, 1, i - 1)

\* s.lstrip(chars) and s.rstrip(chars), chars given as a set of characters
RECURSIVE LStripChars(_, _)
LStripChars(s, chars) ==
    IF s # "" /\ Char(s, 1) \in chars THEN LStripChars(From(s, 2), chars) ELSE s
RECURSIVE RStripChars(_, _)
RStripChars(s, chars) ==
    IF s # "" /\ Char(s, Len(s)) \in chars
    THEN RStripChars(SubSeq(s, 1, Len(s) - 1), chars) ELSE s

\* s.strip()
StripStr(s) == RStripChars(LStripChars(s, Whitespace), Whitespace)

\* s.lower()
RECURSIVE LowerStr(_)
LowerStr(s) ==
    IF Len(s) <= 1 THEN LowerChar(s)
    ELSE LowerStr(SubSeq(s, 1, Len(s) \div 2)) \o LowerStr(From(s, Len(s) \div 2 + 1))

\* The end of the longest run of characters of `class` that starts at i
\* (i - 1 when the character at i is not in the class): what a greedy
\* [class]* consumes.
RunEnd(s, i, class) ==
    LET stops == {j \in i..Len(s) : Char(s, j) \notin class}
    IN  IF stops = {} THEN Len(s) ELSE Least(stops) - 1

\* The same for a run of characters outside `excluded`: a greedy [^...]*.
RunEndNot(s, i, excluded) ==
    LET stops == {j \in i..Len(s) : Char(s, j) \in excluded}
    IN  IF stops = {} THEN Len(s) ELSE Least(stops) - 1

\* EMAIL_RE = [a-zA-Z0-9._%+\-]+@[a-zA-Z0-9.\-]+\.[a-zA-Z]{2,}
EmailLocalChars  == Letters \cup Digits \cup {".", "_", "%", "+", "-"}
EmailDomainChars == Letters \cup Digits \cup {".", "-"}

\* The end of the match of EMAIL_RE that starts at i, 0 when there is none.
\* The local part is the whole run before "@"; the greedy domain gives back
\* characters until a "." followed by two letters is left, so the last such
\* "." of the run starts the final label.
EmailMatchEnd(s, i) ==
    LET localEnd == RunEnd(s, i, EmailLocalChars)
        domStart == localEnd + 2
        domEnd   == RunEnd(s, domStart, EmailDomainChars)
        dots == {p \in (domStart + 1)..domEnd :
                    /\ Char(s, p) = "."
                    /\ Char(s, p + 1) \in Letters /\ Char(s, p + 2) \in Letters}
    IN  IF localEnd < i \/ Char(s, localEnd + 1) # "@" \/ dots = {} THEN 0
        ELSE LET dot == CHOOSE p \in dots : \A q \in dots : q <= p
             IN  RunEnd(s, dot + 1, Letters)

\* EMAIL_RE.match(s)
EmailMatch(s) == EmailMatchEnd(s, 1) # 0

\* EMAIL_RE.findall(s), scanning from position i: the leftmost match, then
\* the matches after its end
RECURSIVE EmailFindAllFrom(_, _)
EmailFindAllFrom(s, i) ==
    LET at == {j \in i..Len(s) : EmailMatchEnd(s, j) # 0}
    IN  IF at = {} THEN <<>>
        ELSE <<SubSeq(s, Least(at), EmailMatchEnd(s, Least(at)))>>
                 \o EmailFindAllFrom(s, EmailMatchEnd(s, Least(at)) + 1)

EmailFindAll(s) == EmailFindAllFrom(s, 1)

\* The position after an optional character of `class` at i: a greedy [class]?
Opt(s, i, class) == IF Char(s, i) \in class THEN i + 1 ELSE i

\* The characters i .. i+n-1 are digits: \d{n}
DigitsAt(s, i, n) == \A k \in 0..(n - 1) : Char(s, i + k) \in Digits

\* PHONE_RE = (?:\+?1[-.\s]?)?\(?\d{3}\)?[-.\s]?\d{3}[-.\s]?\d{4}
PhoneSeps == {"-", "."} \cup Whitespace

\* \(?\d{3}\)?[-.\s]?\d{3}[-.\s]?\d{4} from i: the end of the match or 0
PhoneBodyEnd(s, i) ==
    LET area   == Opt(s, i, {"("})
        middle == Opt(s, Opt(s, area + 3, {")"}), PhoneSeps)
        last   == Opt(s, middle + 3, PhoneSeps)
    IN  IF DigitsAt(s, area, 3) /\ DigitsAt(s, middle, 3) /\ DigitsAt(s, last, 4)
        THEN last + 3 ELSE 0

\* The end of the match of PHONE_RE that starts at i, 0 when there is none:
\* the country prefix is tried first and given up when the rest fails.
PhoneMatchEnd(s, i) ==
    LET one == Opt(s, i, {"+"})
        withPrefix == IF Char(s, one) = "1"
                      THEN PhoneBodyEnd(s, Opt(s, one + 1, PhoneSeps)) ELSE 0
    IN  IF withPrefix # 0 THEN withPrefix ELSE PhoneBodyEnd(s, i)

\* _extract_phone(text)
ExtractPhone(text) ==
    LET at == {i \in 1..Len(text) : PhoneMatchEnd(text, i) # 0}
    IN  IF at = {} THEN ""
        ELSE StripStr(SubSeq(text, Least(at), PhoneMatchEnd(text, Least(at))))

\* SOCIAL_PATTERNS, in the order of the dict: the field and what follows
\* https?://(?:www\.)? in its pattern
SOCIAL_PATTERNS ==
    << <<"facebook",  {"facebook.com/"}>>,
       <<"instagram", {"instagram.com/"}>>,
       <<"twitter",   {"twitter.com/", "x.com/"}>>,
       <<"linkedin",  {"linkedin.com/"}>>,
       <<"tiktok",    {"tiktok.com/@"}>>,
       <<"yelp_url",  {"yelp.com/biz/"}>> >>

SocialFields == {SOCIAL_PATTERNS[i][1] : i \in DOMAIN SOCIAL_PATTERNS}

\* [^\s"'<>]
UrlStops == Whitespace \cup {"\"", "'", "<", ">"}

\* The end of the match of a social pattern that starts at i, 0 when there
\* is none; `low` is the lower-cased markup (the patterns ignore case).
SocialMatchEnd(low, i, hosts) ==
    LET heads == {scheme \o www \o host :
                    scheme \in {"http://", "https://"}, www \in {"", "www."},
                    host \in hosts}
        matching == {h \in heads : StartsWithAt(low, i, h)}
    IN  IF matching = {} THEN 0
        ELSE LET rest == i + Len(CHOOSE h \in matching : TRUE)
                 end  == RunEndNot(low, rest, UrlStops)
             IN  IF end < rest THEN 0 ELSE end

\* pattern.search(html), then match.group(0).rstrip("\"'>/),.")
SocialUrl(html, hosts) ==
    LET low == LowerStr(html)
        at  == {i \in 1..Len(html) : SocialMatchEnd(low, i, hosts) # 0}
    IN  IF at = {} THEN ""
        ELSE RStripChars(SubSeq(html, Least(at), SocialMatchEnd(low, Least(at), hosts)),
                         {"\"", "'", ">", "/", ")", ",", "."})

\* A variant of the loop body of _extract_socials without the test that
\* skips a field already set.
SocialStepOverwrite(html, restaurant, k) ==
    LET url == SocialUrl(html, SOCIAL_PATTERNS[k][2])
    IN  IF url # "" THEN [restaurant EXCEPT ![SOCIAL_PATTERNS[k][1]] = url]
        ELSE restaurant

\* One turn of the loop of _extract_socials
SocialStep(html, restaurant, k) ==
    LET field_name == SOCIAL_PATTERNS[k][1]
        url == SocialUrl(html, SOCIAL_PATTERNS[k][2])
    IN  IF restaurant[field_name] # "" THEN restaurant
        ELSE IF url # ""
             THEN [restaurant EXCEPT ![field_name] = url]
             ELSE restaurant

\* _extract_socials(html, restaurant), from the k-th pattern on
RECURSIVE ExtractSocialsFrom(_, _, _)
ExtractSocialsFrom(html, restaurant, k) ==
    IF k > Len(SOCIAL_PATTERNS) THEN restaurant
    ELSE ExtractSocialsFrom(html, SocialStep(html, restaurant, k), k + 1)

ExtractSocials(html, restaurant) == ExtractSocialsFrom(html, restaurant, 1)

OWNER_KEYWORDS ==
    <<"owner", "founder", "proprietor", "chef-owner", "chef/owner",
      "managing partner", "general manager">>

\* [:\-] of the owner pattern (its two long dashes behave as "-" does)
OwnerSeps == {":", "-"}

\* (?:\s+[A-Z][a-z]+)* after a word that ends at e: the end of the last
\* word taken. With IGNORECASE a word is any two or more letters.
RECURSIVE OwnerWordsEnd(_, _)
OwnerWordsEnd(s, e) ==
    LET word    == RunEnd(s, e + 1, Whitespace) + 1
        wordEnd == RunEnd(s, word, Letters)
    IN  IF word > e + 1 /\ wordEnd > word THEN OwnerWordsEnd(s, wordEnd) ELSE e

\* The match of keyword\s*[:\-]?\s*([A-Z][a-z]+(?:\s+[A-Z][a-z]+)+) that
\* starts at i: <<start, end>> of group 1, or <<>> when there is none.
OwnerMatchAt(s, low, i, keyword) ==
    LET sep   == RunEnd(s, i + Len(keyword), Whitespace) + 1
        first == RunEnd(s, Opt(s, sep, OwnerSeps), Whitespace) + 1
        firstEnd == RunEnd(s, first, Letters)
        end == OwnerWordsEnd(s, firstEnd)
    IN  IF StartsWithAt(low, i, keyword) /\ firstEnd > first /\ end > firstEnd
        THEN <<first, end>> ELSE <<>>

\* pattern.search(text) for one keyword: where the match starts, 0 when
\* the pattern does not match
OwnerSearchAt(text, keyword) ==
    LET low == LowerStr(text)
        at  == {i \in 1..Len(text) : OwnerMatchAt(text, low, i, keyword) # <<>>}
    IN  IF at = {} THEN 0 ELSE Least(at)

\* match.group(1).strip() of that match, "" when the pattern does not match
OwnerSearch(text, keyword) ==
    LET i == OwnerSearchAt(text, keyword)
        m == OwnerMatchAt(text, LowerStr(text), i, keyword)
    IN  IF i = 0 THEN "" ELSE StripStr(SubSeq(text, m[1], m[2]))

(***************************************************************************)
(* Pages. A page is the sequence of its nodes, a text node or an anchor    *)
(* whose href is optional; resp.text is its markup, and BeautifulSoup      *)
(* gives back the nodes of the markup it is handed.                        *)
(***************************************************************************)
TextNode(text)       == [tag |-> "text", text |-> text]
Anchor(href, text)   == [tag |-> "a", href |-> href, text |-> text]
AnchorNoHref(text)   == [tag |-> "a", text |-> text]

\* resp.text: the markup of a page
RECURSIVE Markup(_)
Markup(page) ==
    IF page = <<>> THEN ""
    ELSE LET node == Head(page)
             this == IF node.tag = "text" THEN node.text
                     ELSE IF "href" \in DOMAIN node
                          THEN "<a href=\"" \o node.href \o "\">" \o node.text \o "</a>"
                     ELSE "<a>" \o node.text \o "</a>"
         IN  this \o Markup(Tail(page))

\* BeautifulSoup(html, "lxml").get_text(separator=" ", strip=True)
RECURSIVE GetText(_)
GetText(page) ==
    IF page = <<>> THEN ""
    ELSE LET this == StripStr(Head(page).text)
             rest == GetText(Tail(page))
         IN  IF this = "" THEN rest
             ELSE IF rest = "" THEN this
             ELSE this \o " " \o rest

\* [a_tag["href"] for a_tag in soup.find_all("a", href=True)]
RECURSIVE Hrefs(_)
Hrefs(page) ==
    IF page = <<>> THEN <<>>
    ELSE (IF Head(page).tag = "a" /\ "href" \in DOMAIN Head(page)
          THEN <<Head(page).href>> ELSE <<>>) \o Hrefs(Tail(page))

\* all_html, all_text and the anchors of all_html, for pages_html
RECURSIVE AllHtml(_)
AllHtml(pages_html) ==
    IF pages_html = <<>> THEN ""
    ELSE Markup(Head(pages_html)) \o "\n" \o AllHtml(Tail(pages_html))
RECURSIVE AllText(_)
AllText(pages_html) ==
    IF pages_html = <<>> THEN ""
    ELSE GetText(Head(pages_html)) \o "\n" \o AllText(Tail(pages_html))
RECURSIVE AllHrefs(_)
AllHrefs(pages_html) ==
    IF pages_html = <<>> THEN <<>>
    ELSE Hrefs(Head(pages_html)) \o AllHrefs(Tail(pages_html))

\* urlparse(url).netloc: what follows "scheme://" up to the next "/", "?" or "#"
Netloc(url) ==
    LET colon == Find(url, ":")
        hasScheme == /\ colon > 1
                     /\ Char(url, 1) \in Letters
                     /\ RunEnd(url, 1, Letters \cup Digits \cup {"+", "-", "."}) = colon - 1
        rest == IF hasScheme THEN From(url, colon + 1) ELSE url
    IN  IF StartsWith(rest, "//")
        THEN SubSeq(rest, 3, RunEndNot(rest, 3, {"/", "?", "#"}))
        ELSE ""

\* href.replace("mailto:", "").split("?")[0].strip()
MailtoTarget(href) == StripStr(SplitFirst(Replace(href, "mailto:", ""), "?"))

\* The first loop of _extract_email: the target of the first mailto: anchor
\* that EMAIL_RE.match accepts, "" when the loop ends without returning.
RECURSIVE MailtoEmail(_)
MailtoEmail(hrefs) ==
    IF hrefs = <<>> THEN ""
    ELSE IF StartsWith(Head(hrefs), "mailto:") /\ EmailMatch(MailtoTarget(Head(hrefs)))
         THEN MailtoTarget(Head(hrefs))
    ELSE MailtoEmail(Tail(hrefs))

ImageExtensions == {".png", ".jpg", ".gif", ".svg", ".webp"}

\* The fallback of _extract_email: regex matches, image names dropped, a
\* match that contains the domain preferred
RegexEmail(text, html, base_url) ==
    LET domain     == Replace(Netloc(base_url), "www.", "")
        all_emails == EmailFindAll(text \o " " \o html)
        NotImage(e) == \A ext \in ImageExtensions : ~EndsWith(e, ext)
        filtered   == SelectSeq(all_emails, NotImage)
        HasDomain(e) == Contains(e, domain)
        domain_emails == SelectSeq(filtered, HasDomain)
    IN  IF domain_emails # <<>> THEN domain_emails[1]
        ELSE IF filtered # <<>> THEN filtered[1]
        ELSE ""

\* A variant of _extract_email that takes a mailto: link only when the
\* regex fallback finds nothing.
ExtractEmailRegexFirst(text, pages_html, base_url) ==
    IF RegexEmail(text, AllHtml(pages_html), base_url) # ""
    THEN RegexEmail(text, AllHtml(pages_html), base_url)
    ELSE MailtoEmail(AllHrefs(pages_html))

\* _extract_email(text, html, base_url); the markup is given as the pages
\* it is the concatenation of
ExtractEmail(text, pages_html, base_url) ==
    IF MailtoEmail(AllHrefs(pages_html)) # ""
    THEN MailtoEmail(AllHrefs(pages_html))
    ELSE RegexEmail(text, AllHtml(pages_html), base_url)

\* A variant of _extract_owner in which the match that comes first in the
\* text wins, whatever its keyword.
ExtractOwnerByPosition(text, restaurant) ==
    LET low == LowerStr(text)
        at  == {i \in 1..Len(text) :
                   \E k \in DOMAIN OWNER_KEYWORDS :
                       OwnerMatchAt(text, low, i, OWNER_KEYWORDS[k]) # <<>>}
    IN  IF restaurant.venue_owner # "" \/ at = {} THEN restaurant
        ELSE LET k == Least({j \in DOMAIN OWNER_KEYWORDS :
                         OwnerMatchAt(text, low, Least(at), OWNER_KEYWORDS[j]) # <<>>})
                 m == OwnerMatchAt(text, low, Least(at), OWNER_KEYWORDS[k])
             IN  [restaurant EXCEPT !.venue_owner = StripStr(SubSeq(text, m[1], m[2]))]

\* The loop of _extract_owner from the k-th keyword on
RECURSIVE ExtractOwnerFrom(_, _, _)
ExtractOwnerFrom(text, restaurant, k) ==
    IF k > Len(OWNER_KEYWORDS) THEN restaurant
    ELSE IF OwnerSearch(text, OWNER_KEYWORDS[k]) # ""
         THEN [restaurant EXCEPT !.venue_owner = OwnerSearch(text, OWNER_KEYWORDS[k])]
    ELSE ExtractOwnerFrom(text, restaurant, k + 1)

\* _extract_owner(text, restaurant)
ExtractOwner(text, restaurant) ==
    IF restaurant.venue_owner # "" THEN restaurant
    ELSE ExtractOwnerFrom(text, restaurant, 1)

(***************************************************************************)
(* _extract_email and _extract_owner, each called once on the text and     *)
(* markup of one or two pages.                                             *)
(***************************************************************************)
PageMailtoAndText ==
    <<Anchor("mailto:jane@site.com", "Email Jane"), TextNode(" or info@other.com")>>
PageTwoEmails == <<TextNode("Write to info@other.com or info@ab.co.")>>
PageLocalPart == <<TextNode("ab.co@q.io, info@ab.co"), AnchorNoHref("logo@2x.png")>>
PageMailtoList ==
    <<Anchor("/contact", "Contact"), Anchor("mailto:", "Mail"),
      Anchor("mailto:a@b.co,c@d.io?subject=Hi", "Both"), Anchor("mailto:x@ab.co", "X")>>
PageImageOnly == <<TextNode("icon@2x.png")>>
PageFounderOwner == <<TextNode("Founder Ann Lee. Owner: Bob Ray, since 2019")>>
PageManagerChef == <<TextNode("Our General Manager - Cy Dee"), TextNode("Chef/Owner Di Fox")>>
PagePartnerFounder == <<TextNode("Managing Partner Ed Gil; founder: Flo Hart")>>
ExtractPages ==
    {PageMailtoAndText, PageTwoEmails, PageLocalPart, PageMailtoList, PageImageOnly,
     PageFounderOwner, PageManagerChef, PagePartnerFounder}
BaseUrls == {"https://www.ab.co", "https://other.com/menu", "https://q.io"}
OwnedRecord == Restaurant([venue_name |-> NameCafeA, venue_owner |-> "Zed Old"])
UnownedRecord == Restaurant([venue_name |-> NameCafeA])

extractRest == <<mergeVars, dedupVars, pageVars, scrapeVars, detailVars, crawlVars, moreVars>>

InitExtract ==
    /\ xhtml \in {<<p>> : p \in ExtractPages} \cup (ExtractPages \X ExtractPages)
    /\ xtext = AllText(xhtml)
    /\ xsite \in BaseUrls
    /\ xrec \in {OwnedRecord, UnownedRecord} /\ xbefore = xrec
    /\ xemail = "" /\ xdone = {}
    /\ MergeIdle /\ DedupIdle /\ PageIdle /\ ScrapeIdle /\ DetailIdle /\ CrawlIdle /\ MoreIdle

\* self._extract_email(all_text, all_html, base_url)
ExtractEmailCall ==
    /\ "email" \notin xdone
    /\ xemail' = ExtractEmail(xtext, xhtml, xsite)
    /\ xdone' = xdone \cup {"email"}
    /\ UNCHANGED <<xhtml, xtext, xsite, xrec, xbefore, extractRest>>

\* self._extract_owner(all_text, restaurant)
ExtractOwnerCall ==
    /\ "owner" \notin xdone
    /\ xrec' = ExtractOwner(xtext, xrec)
    /\ xdone' = xdone \cup {"owner"}
    /\ UNCHANGED <<xhtml, xtext, xsite, xbefore, xemail, extractRest>>

NextExtract == ExtractEmailCall \/ ExtractOwnerCall

SpecExtract == InitExtract /\ [][NextExtract]_vars

\* The anchors whose target passes the shape test of _extract_email (the
\* target begins with an email-shaped string), by position among the hrefs
ValidMailtoLinks ==
    {i \in DOMAIN AllHrefs(xhtml) :
        /\ StartsWith(AllHrefs(xhtml)[i], "mailto:")
        /\ EmailMatch(MailtoTarget(AllHrefs(xhtml)[i]))}

\* C18: whenever the markup has a mailto: link whose target has a valid
\* email shape, the extracted email is the target of the first such link
\* in page order, whatever emails appear in plain text.
C18_MailtoFirst ==
    ("email" \in xdone /\ ValidMailtoLinks # {}) =>
        xemail = MailtoTarget(AllHrefs(xhtml)[Least(ValidMailtoLinks)])

\* A mailto: link was taken although a plain-text email of the site's own
\* domain was there to be found, and a later valid link as well.
C18_Witness ==
    /\ "email" \in xdone /\ ValidMailtoLinks # {}
    /\ \E i \in ValidMailtoLinks : i > Least(ValidMailtoLinks)
    /\ RegexEmail(xtext, AllHtml(xhtml), xsite) \notin {"", xemail}
    /\ EndsWith(RegexEmail(xtext, AllHtml(xhtml), xsite), "@ab.co")
    /\ xsite = "https://www.ab.co"

\* The part of an address after its "@"
DomainPortion(e) == From(e, Find(e, "@") + 1)

\* C19: with no valid mailto: link, the extracted email is the first
\* email-shaped match not ending in an image extension whose domain portion
\* contains the website's domain (leading "www." stripped), else the first
\* such match, else empty.
C19_DomainPreference ==
    ("email" \in xdone /\ ValidMailtoLinks = {}) =>
        LET netloc == Netloc(xsite)
            domain == IF StartsWith(netloc, "www.") THEN From(netloc, 5) ELSE netloc
            NotImage(e)  == \A ext \in ImageExtensions : ~EndsWith(e, ext)
            OwnDomain(e) == Contains(DomainPortion(e), domain)
            remaining == SelectSeq(EmailFindAll(xtext \o " " \o AllHtml(xhtml)), NotImage)
            preferred == SelectSeq(remaining, OwnDomain)
        IN  xemail = IF preferred # <<>> THEN preferred[1]
                     ELSE IF remaining # <<>> THEN remaining[1]
                     ELSE ""

\* The keywords of the list that match somewhere in the text, by position
\* in the list
OwnerHits == {k \in DOMAIN OWNER_KEYWORDS : OwnerSearchAt(xtext, OWNER_KEYWORDS[k]) # 0}

\* C20: when the record's owner is empty, the owner is taken from the match
\* of the earliest keyword of the list that matches anywhere in the text,
\* wherever the later keywords match, and stays empty when none matches.
C20_KeywordOrder ==
    ("owner" \in xdone /\ xbefore.venue_owner = "") =>
        /\ xrec.venue_owner =
              IF OwnerHits = {} THEN ""
              ELSE OwnerSearch(xtext, OWNER_KEYWORDS[Least(OwnerHits)])
        /\ \A f \in Fields \ {"venue_owner"} : xrec[f] = xbefore[f]

\* A later keyword of the list matched earlier in the text than the keyword
\* the owner was taken from, with another name.
C20_Witness ==
    /\ "owner" \in xdone /\ xbefore.venue_owner = "" /\ xrec.venue_owner # ""
    /\ \E k \in OwnerHits :
        /\ k > Least(OwnerHits)
        /\ OwnerSearchAt(xtext, OWNER_KEYWORDS[k])
              < OwnerSearchAt(xtext, OWNER_KEYWORDS[Least(OwnerHits)])
        /\ OwnerSearch(xtext, OWNER_KEYWORDS[k]) # xrec.venue_owner

(***************************************************************************)
(* WebsiteScraper.enrich_restaurant: one crawl of one record's website,    *)
(* request by request.                                                     *)
(***************************************************************************)
SUBPAGES == <<"contact", "about", "about-us", "contact-us", "our-story", "team">>

\* base_url of enrich_restaurant
BaseUrl(website) ==
    IF StartsWith(website, "http") THEN website ELSE "https://" \o website

\* urljoin(base_url.rstrip("/") + "/", slug), for a base_url without query
\* or fragment
SubpageUrl(base_url, slug) == RStripChars(base_url, {"/"}) \o "/" \o slug

\* What the site serves at the homepage (0) and at each subpage (1..6)
SitePages ==
    << <<TextNode("Cafe A, call (512) 555-0142"),
         Anchor("https://www.facebook.com/cafea/", "fb"),
         Anchor("https://x.com/cafea", "x")>>,
       <<Anchor("mailto:hi@ab.co?subject=Hi", "Mail"), TextNode(" or info@ab.co "),
         Anchor("https://instagram.com/cafea", "ig")>>,
       <<TextNode("Founder Ann Lee. Owner: Bob Ray, since 2019")>>,
       <<TextNode("")>>,
       <<Anchor("https://www.tiktok.com/@cafea", "tt"),
         Anchor("https://www.yelp.com/biz/cafe-a", "yelp"),
         Anchor("https://linkedin.com/company/cafea", "in")>>,
       <<TextNode("Our story")>>,
       <<TextNode("General Manager Cy Dee")>> >>

\* What a request can give: an exception of requests, or a response
Raised == [kind |-> "exception"]
Response(status_code, content_type, body) ==
    [kind |-> "response", status_code |-> status_code,
     content_type |-> content_type, body |-> body]
NotFound   == Response(404, "text/html", <<TextNode("Not Found. Mail webmaster@host.io")>>)
JsonAnswer == Response(200, "application/json", <<TextNode("{owner: Al Bo, tel: 5125550199}")>>)
NoHeader   == Response(200, "", <<TextNode("Owner: Al Bo")>>)
Sites == {"down", "missing", "api", "mixed"}

\* The failing answer of a site to the n-th request (n = 0 for the homepage)
Failure(s, n) ==
    IF s = "down" THEN Raised
    ELSE IF s = "missing" THEN NotFound
    ELSE IF s = "api" THEN JsonAnswer
    ELSE <<Raised, NotFound, JsonAnswer, NoHeader>>[(n % 4) + 1]

\* The answers the n-th request can get
Answers(s, n) == {Response(200, "text/html; charset=utf-8", SitePages[n + 1]), Failure(s, n)}

\* A variant of _get that returns the body whatever the status code is.
GetAnyStatus(answer) ==
    IF answer.kind = "response" /\ Contains(answer.content_type, "text/html")
    THEN answer.body ELSE <<>>

\* _get(url): the page, or the empty page for None
HttpGet(answer) ==
    IF /\ answer.kind = "response"
       /\ answer.status_code = 200
       /\ Contains(answer.content_type, "text/html")
    THEN answer.body ELSE <<>>

\* pages after `if html: pages.append(html)`
Appended(list, page) == IF Markup(page) # "" THEN Append(list, page) ELSE list

\* Lines 77-91 of enrich_restaurant: the extraction from the fetched pages
EnrichFromPages(restaurant, pages_html, base_url) ==
    LET all_text == AllText(pages_html)
        all_html == AllHtml(pages_html)
        r1 == IF restaurant.email_address = ""
              THEN [restaurant EXCEPT
                      !.email_address = ExtractEmail(all_text, pages_html, base_url)]
              ELSE restaurant
        r2 == IF r1.phone_number = ""
              THEN [r1 EXCEPT !.phone_number = ExtractPhone(all_text)] ELSE r1
    IN  ExtractOwner(all_text, ExtractSocials(all_html, r2))

\* The records a crawl is run on
CrawlFields == {"email_address", "phone_number", "venue_owner"} \cup SocialFields
NoSiteRecord == Restaurant([venue_name |-> NameCafeA, source |-> "yelp"])
BareRecord == Restaurant([venue_name |-> NameCafeA, website |-> "ab.co", source |-> "yelp"])
PartialRecord ==
    Restaurant([venue_name |-> NameCafeA, website |-> "https://www.ab.co/",
                email_address |-> "old@ab.co", facebook |-> "https://facebook.com/old",
                rating |-> <<45>>, venue_address |-> "1 Main St",
                source |-> "google_places"])
FullRecord ==
    Restaurant([venue_name |-> NameCafeA, website |-> "https://www.ab.co",
                email_address |-> "old@ab.co", phone_number |-> "555-0100",
                venue_owner |-> "Zed Old", facebook |-> "https://facebook.com/old",
                instagram |-> "https://instagram.com/old",
                twitter |-> "https://twitter.com/old",
                linkedin |-> "https://linkedin.com/in/old",
                tiktok |-> "https://tiktok.com/@old",
                yelp_url |-> "https://yelp.com/biz/old", rating |-> <<0>>,
                source |-> "web_search"])
CrawlRecords == {NoSiteRecord, BareRecord, PartialRecord, FullRecord}

crawlRest == <<mergeVars, dedupVars, pageVars, scrapeVars, detailVars, extractVars, moreVars>>

InitCrawl ==
    /\ crec \in CrawlRecords /\ cbefore = crec
    /\ site \in Sites
    /\ cpc = "start" /\ cslug = 0
    /\ attempted = <<>> /\ outcomes = <<>> /\ pages = <<>>
    /\ MergeIdle /\ DedupIdle /\ PageIdle /\ ScrapeIdle /\ DetailIdle /\ ExtractIdle /\ MoreIdle

\* if not restaurant.website: return restaurant
CrawlNoWebsite ==
    /\ cpc = "start" /\ crec.website = ""
    /\ cpc' = "returned"
    /\ UNCHANGED <<crec, cbefore, cslug, attempted, outcomes, pages, site, crawlRest>>

\* A variant of the first request that is made whether or not the record
\* has a website.
FetchHomeUnguarded ==
    /\ cpc = "start"
    /\ \E answer \in Answers(site, 0) :
        /\ attempted' = <<BaseUrl(crec.website)>>
        /\ outcomes' = <<answer>>
        /\ pages' = Appended(<<>>, HttpGet(answer))
    /\ cpc' = "subpages"
    /\ UNCHANGED <<crec, cbefore, cslug, site, crawlRest>>

\* html = self._get(base_url); if html: pages.append(html)
FetchHome ==
    /\ cpc = "start" /\ crec.website # ""
    /\ \E answer \in Answers(site, 0) :
        /\ attempted' = <<BaseUrl(crec.website)>>
        /\ outcomes' = <<answer>>
        /\ pages' = Appended(<<>>, HttpGet(answer))
    /\ cpc' = "subpages"
    /\ UNCHANGED <<crec, cbefore, cslug, site, crawlRest>>

\* A variant of the loop over SUBPAGES that stops at the first subpage that
\* cannot be retrieved.
FetchSubpageOrStop ==
    /\ cpc = "subpages" /\ cslug < Len(SUBPAGES)
    /\ \E answer \in Answers(site, cslug + 1) :
        /\ attempted' = Append(attempted,
                               SubpageUrl(BaseUrl(crec.website), SUBPAGES[cslug + 1]))
        /\ outcomes' = Append(outcomes, answer)
        /\ pages' = Appended(pages, HttpGet(answer))
        /\ cslug' = IF HttpGet(answer) = <<>> THEN Len(SUBPAGES) ELSE cslug + 1
    /\ UNCHANGED <<crec, cbefore, cpc, site, crawlRest>>

\* One turn of the loop over SUBPAGES in _fetch_pages
FetchSubpage ==
    /\ cpc = "subpages" /\ cslug < Len(SUBPAGES)
    /\ \E answer \in Answers(site, cslug + 1) :
        /\ attempted' = Append(attempted,
                               SubpageUrl(BaseUrl(crec.website), SUBPAGES[cslug + 1]))
        /\ outcomes' = Append(outcomes, answer)
        /\ pages' = Appended(pages, HttpGet(answer))
    /\ cslug' = cslug + 1
    /\ UNCHANGED <<crec, cbefore, cpc, site, crawlRest>>

\* if not pages_html: return restaurant
CrawlNoPages ==
    /\ cpc = "subpages" /\ cslug = Len(SUBPAGES) /\ pages = <<>>
    /\ cpc' = "returned"
    /\ UNCHANGED <<crec, cbefore, cslug, attempted, outcomes, pages, site, crawlRest>>

\* the extraction from the pages, then return restaurant
CrawlExtract ==
    /\ cpc = "subpages" /\ cslug = Len(SUBPAGES) /\ pages # <<>>
    /\ crec' = EnrichFromPages(crec, pages, BaseUrl(crec.website))
    /\ cpc' = "returned"
    /\ UNCHANGED <<cbefore, cslug, attempted, outcomes, pages, site, crawlRest>>

NextCrawl ==
    \/ CrawlNoWebsite \/ FetchHome \/ FetchSubpage \/ CrawlNoPages \/ CrawlExtract

SpecCrawl == InitCrawl /\ [][NextCrawl]_vars

\* C14: the crawl never changes a populated field: each of email, phone,
\* the five social URLs, the review-site URL and the owner that was set
\* before the call keeps its value, and no other field changes.
C14_CrawlGapFillOnly ==
    /\ \A f \in CrawlFields : cbefore[f] # "" => crec[f] = cbefore[f]
    /\ \A f \in Fields \ CrawlFields : crec[f] = cbefore[f]

\* The crawl returned having filled the empty fields of a record and left
\* the populated ones, for which the pages hold other values, as they were.
C14_Witness ==
    /\ cpc = "returned" /\ Len(pages) >= 5
    /\ cbefore.email_address # "" /\ crec.email_address = cbefore.email_address
    /\ ExtractEmail(AllText(pages), pages, BaseUrl(crec.website))
          \notin {"", cbefore.email_address}
    /\ cbefore.facebook # "" /\ crec.facebook = cbefore.facebook
    /\ SocialUrl(AllHtml(pages), {"facebook.com/"}) \notin {"", cbefore.facebook}
    /\ cbefore.phone_number = "" /\ crec.phone_number # ""
    /\ cbefore.venue_owner = "" /\ crec.venue_owner # ""
    /\ cbefore.tiktok = "" /\ crec.tiktok # ""

\* C15: for a record without a website no request is made and no field of
\* the record changes.
C15_NoWebsiteNoOp ==
    cbefore.website = "" => (attempted = <<>> /\ outcomes = <<>> /\ crec = cbefore)

\* The crawl of a record without a website has returned.
C15_Witness ==
    cpc = "returned" /\ cbefore.website = "" /\ attempted = <<>> /\ crec = cbefore

\* A request whose answer is a page: status 200, an HTML content type and a
\* body that is not empty
Retrieved(answer) ==
    /\ answer.kind = "response" /\ answer.status_code = 200
    /\ Contains(answer.content_type, "text/html")
    /\ Markup(answer.body) # ""

\* C16: when none of the seven requests gives a page, whether it raises,
\* is answered with another status than 200 or with something that is not
\* HTML, the crawl returns and every field of the record is as before.
C16_NothingRetrievedNoOp ==
    (Len(outcomes) = Len(SUBPAGES) + 1 /\ \A i \in DOMAIN outcomes : ~Retrieved(outcomes[i])) =>
        /\ crec = cbefore
        /\ pages = <<>>
        /\ ENABLED CrawlNoPages \/ cpc = "returned"

\* The crawl returned after seven requests of which one raised, one was
\* answered 404 with a body holding an email and one with JSON, on a record
\* with empty fields.
C16_Witness ==
    /\ cpc = "returned" /\ Len(outcomes) = Len(SUBPAGES) + 1
    /\ \A i \in DOMAIN outcomes : ~Retrieved(outcomes[i])
    /\ \E i, j, k \in DOMAIN outcomes :
          outcomes[i] = Raised /\ outcomes[j] = NotFound /\ outcomes[k] = JsonAnswer
    /\ cbefore.email_address = "" /\ cbefore.venue_owner = "" /\ crec = cbefore

\* C17: a crawl of a record with a website makes exactly seven requests,
\* the homepage and then the six subpages in the order of the list,
\* whichever of them fail, and the pages extraction works on are the
\* retrieved ones in the order of the requests.
C17_FetchesIndependent ==
    LET base == BaseUrl(cbefore.website)
        urls == <<base>> \o [i \in DOMAIN SUBPAGES |-> SubpageUrl(base, SUBPAGES[i])]
        retrieved == SelectSeq(outcomes, Retrieved)
    IN  /\ Len(attempted) = Len(outcomes)
        /\ attempted = SubSeq(urls, 1, Len(attempted))
        /\ pages = [i \in DOMAIN retrieved |-> retrieved[i].body]
        /\ (cpc = "returned" /\ cbefore.website # "") => Len(attempted) = 7
        /\ (cpc = "subpages" /\ Len(attempted) < 7) => ENABLED FetchSubpage

\* A crawl returned whose homepage request failed while later requests,
\* separated by further failures, gave the pages extraction worked on.
C17_Witness ==
    /\ cpc = "returned" /\ Len(attempted) = 7
    /\ attempted[1] = "https://ab.co" /\ attempted[2] = "https://ab.co/contact"
    /\ attempted[7] = "https://ab.co/team"
    /\ ~Retrieved(outcomes[1]) /\ Retrieved(outcomes[2]) /\ ~Retrieved(outcomes[3])
    /\ ~Retrieved(outcomes[6]) /\ Retrieved(outcomes[7])
    /\ pages = <<SitePages[2], SitePages[7]>>
    /\ crec.email_address = "hi@ab.co"

(***************************************************************************)
(* HubSpotExporter.push_restaurants: one push, post by post.               *)
(***************************************************************************)
MaxPushRecords == 4     \* records of a push, besides the pushes of a full batch
MaxBatchSize   == 3     \* largest batch_size, besides the default

\* batch_size: int = 10
DefaultBatchSize == 10

\* resp.text[:200]
TextLimit == 200

\* The records of a push, by name
RecordNames == <<"r1", "r2", "r3", "r4", "r5", "r6", "r7", "r8", "r9", "r10", "r11", "r12">>

\* What the provider answers a post with
Items(n) == [i \in 1..n |-> [id |-> i]]
ErrorItems(n) ==
    [i \in 1..n |-> IF i % 2 = 1 THEN [message |-> "Property values were not valid"]
                    ELSE [category |-> "CONFLICT"]]
BatchAnswer(status_code, body, text) ==
    [kind |-> "response", status_code |-> status_code, data |-> body, text |-> text]
TimedOut == [kind |-> "exception", text |-> "Read timed out. (read timeout=30)"]
LongText ==
    LET block == "0123456789012345678901234567890123456789012345678"
    IN  "{" \o block \o block \o block \o block \o block \o "}"
PushAnswers(n) ==
    {BatchAnswer(201, [results |-> Items(n)], ""),
     BatchAnswer(201, IF n > 0 THEN [results |-> Items(n - 1)] ELSE [status |-> "COMPLETE"], ""),
     BatchAnswer(400, <<>>, LongText), BatchAnswer(200, [results |-> Items(n)], "OK"),
     TimedOut}
    \cup {BatchAnswer(207, [results |-> Items(r), errors |-> ErrorItems(n - r)], "") : r \in 0..n}
    \cup {BatchAnswer(207, [results |-> Items(n), errors |-> ErrorItems(n)], "")}

\* str(resp.status_code) and str(err), for the values the model uses
StatusStr(status_code) ==
    IF status_code = 400 THEN "400" ELSE IF status_code = 200 THEN "200" ELSE "?"
ErrStr(err) == IF err = [category |-> "CONFLICT"] THEN "{'category': 'CONFLICT'}" ELSE "?"

\* [err.get("message", str(err)) for err in errors]
ErrorMessages(errs) == [i \in DOMAIN errs |-> Get(errs[i], "message", ErrStr(errs[i]))]

\* A variant of _create_batch that counts every record of a partly
\* successful batch that was not created as failed.
CreateBatchRemainderFailed(batch, answer) ==
    IF answer.kind = "exception"
    THEN [created |-> 0, failed |-> Len(batch), errors |-> <<answer.text>>]
    ELSE IF answer.status_code = 201
    THEN [created |-> Len(Get(answer.data, "results", <<>>)), failed |-> 0, errors |-> <<>>]
    ELSE IF answer.status_code = 207
    THEN [created |-> Len(Get(answer.data, "results", <<>>)),
          failed  |-> Len(batch) - Len(Get(answer.data, "results", <<>>)),
          errors  |-> ErrorMessages(Get(answer.data, "errors", <<>>))]
    ELSE [created |-> 0, failed |-> Len(batch),
          errors |-> <<"HTTP " \o StatusStr(answer.status_code) \o ": "
                          \o SubSeq(answer.text, 1, Min(TextLimit, Len(answer.text)))>>]

\* A variant of _create_batch that reports nothing for a request that fails
\* in transport.
CreateBatchTransportSilent(batch, answer) ==
    IF answer.kind = "exception"
    THEN [created |-> 0, failed |-> 0, errors |-> <<>>]
    ELSE IF answer.status_code = 201
    THEN [created |-> Len(Get(answer.data, "results", <<>>)), failed |-> 0, errors |-> <<>>]
    ELSE IF answer.status_code = 207
    THEN [created |-> Len(Get(answer.data, "results", <<>>)),
          failed  |-> Len(Get(answer.data, "errors", <<>>)),
          errors  |-> ErrorMessages(Get(answer.data, "errors", <<>>))]
    ELSE [created |-> 0, failed |-> Len(batch),
          errors |-> <<"HTTP " \o StatusStr(answer.status_code) \o ": "
                          \o SubSeq(answer.text, 1, Min(TextLimit, Len(answer.text)))>>]

\* _create_batch(restaurants), given what the post gives
CreateBatch(batch, answer) ==
    IF answer.kind = "exception"
    THEN [created |-> 0, failed |-> Len(batch), errors |-> <<answer.text>>]
    ELSE IF answer.status_code = 201
    THEN [created |-> Len(Get(answer.data, "results", <<>>)), failed |-> 0, errors |-> <<>>]
    ELSE IF answer.status_code = 207
    THEN [created |-> Len(Get(answer.data, "results", <<>>)),
          failed  |-> Len(Get(answer.data, "errors", <<>>)),
          errors  |-> ErrorMessages(Get(answer.data, "errors", <<>>))]
    ELSE [created |-> 0, failed |-> Len(batch),
          errors |-> <<"HTTP " \o StatusStr(answer.status_code) \o ": "
                          \o SubSeq(answer.text, 1, Min(TextLimit, Len(answer.text)))>>]

pushRest == <<mergeVars, dedupVars, pageVars, scrapeVars, detailVars, crawlVars, extractVars,
              yelpVars, webVars>>

InitPush ==
    /\ \E n \in 0..Len(RecordNames), size \in 1..DefaultBatchSize :
        /\ \/ n <= MaxPushRecords /\ size <= MaxBatchSize
           \/ n \in {DefaultBatchSize, DefaultBatchSize + 1} /\ size = DefaultBatchSize
        /\ precords = SubSeq(RecordNames, 1, n)
        /\ batch_size = size
    /\ pidx = 0 /\ ppc = "start"
    /\ presults = [created |-> 0, failed |-> 0, errors |-> <<>>]
    /\ sent = <<>> /\ answers = <<>> /\ deltas = <<>> /\ events = <<>>
    /\ connected = "untested"
    /\ MergeIdle /\ DedupIdle /\ PageIdle /\ ScrapeIdle /\ DetailIdle /\ CrawlIdle
    /\ ExtractIdle /\ YelpIdle /\ WebIdle

\* A variant of test_connection that counts a refused check as a failure.
TestConnectionCounted ==
    /\ ppc = "start" /\ connected = "untested"
    /\ \E answer \in {"200", "401", "exception"} :
        /\ connected' = IF answer = "200" THEN "yes" ELSE "no"
        /\ presults' = IF answer = "200" THEN presults
                       ELSE [presults EXCEPT !.failed = @ + 1]
    /\ UNCHANGED <<precords, batch_size, pidx, ppc, sent, answers, deltas, events,
                   pushRest>>

\* test_connection(): True for status 200, False otherwise and when the
\* request fails
TestConnection ==
    /\ ppc = "start" /\ connected = "untested"
    /\ \E answer \in {"200", "401", "exception"} :
        connected' = IF answer = "200" THEN "yes" ELSE "no"
    /\ UNCHANGED <<precords, batch_size, pidx, ppc, presults, sent, answers, deltas,
                   events, pushRest>>

\* results = {...}; the loop for i in range(0, len(restaurants), batch_size) begins
PushStart ==
    /\ ppc = "start"
    /\ ppc' = "loop"
    /\ UNCHANGED <<precords, batch_size, pidx, presults, sent, answers, deltas, events,
                   connected, pushRest>>

\* restaurants[i : i + batch_size]
Batch(list, i, size) == SubSeq(list, i + 1, Min(i + size, Len(list)))

\* results after the three updates with batch_result
Accumulated(results, batch_result) ==
    [created |-> results.created + batch_result.created,
     failed  |-> results.failed + batch_result.failed,
     errors  |-> results.errors \o batch_result.errors]

\* A variant of the loop body that leaves the loop after a batch none of
\* whose records was created.
PostBatchStopOnFailure ==
    /\ ppc = "loop" /\ pidx < Len(precords)
    /\ \E answer \in PushAnswers(Len(Batch(precords, pidx, batch_size))) :
        LET batch == Batch(precords, pidx, batch_size)
            batch_result == CreateBatch(batch, answer)
        IN  /\ sent' = Append(sent, batch)
            /\ answers' = Append(answers, answer)
            /\ deltas' = Append(deltas, batch_result)
            /\ presults' = Accumulated(presults, batch_result)
            /\ IF batch_result.created = 0
               THEN pidx' = Len(precords) /\ ppc' = "loop"
               ELSE IF pidx + batch_size < Len(precords)
               THEN pidx' = pidx /\ ppc' = "sleep"
               ELSE pidx' = pidx + batch_size /\ ppc' = "loop"
    /\ events' = Append(events, "post")
    /\ UNCHANGED <<precords, batch_size, connected, pushRest>>

\* A variant of the loop body that sleeps after every batch.
PostBatchAlwaysSleep ==
    /\ ppc = "loop" /\ pidx < Len(precords)
    /\ \E answer \in PushAnswers(Len(Batch(precords, pidx, batch_size))) :
        LET batch == Batch(precords, pidx, batch_size)
            batch_result == CreateBatch(batch, answer)
        IN  /\ sent' = Append(sent, batch)
            /\ answers' = Append(answers, answer)
            /\ deltas' = Append(deltas, batch_result)
            /\ presults' = Accumulated(presults, batch_result)
    /\ events' = Append(events, "post")
    /\ pidx' = pidx /\ ppc' = "sleep"
    /\ UNCHANGED <<precords, batch_size, connected, pushRest>>

\* One turn of the loop up to the test before the sleep: the batch is cut,
\* posted and accounted for
PostBatch ==
    /\ ppc = "loop" /\ pidx < Len(precords)
    /\ \E answer \in PushAnswers(Len(Batch(precords, pidx, batch_size))) :
        LET batch == Batch(precords, pidx, batch_size)
            batch_result == CreateBatch(batch, answer)
        IN  /\ sent' = Append(sent, batch)
            /\ answers' = Append(answers, answer)
            /\ deltas' = Append(deltas, batch_result)
            /\ presults' = Accumulated(presults, batch_result)
    /\ events' = Append(events, "post")
    /\ IF pidx + batch_size < Len(precords)
       THEN pidx' = pidx /\ ppc' = "sleep"
       ELSE pidx' = pidx + batch_size /\ ppc' = "loop"
    /\ UNCHANGED <<precords, batch_size, connected, pushRest>>

\* time.sleep(0.5), then the next turn of the loop
PushSleep ==
    /\ ppc = "sleep"
    /\ events' = Append(events, "sleep")
    /\ pidx' = pidx + batch_size
    /\ ppc' = "loop"
    /\ UNCHANGED <<precords, batch_size, presults, sent, answers, deltas, connected,
                   pushRest>>

\* return results
PushReturn ==
    /\ ppc = "loop" /\ pidx >= Len(precords)
    /\ ppc' = "done"
    /\ UNCHANGED <<precords, batch_size, pidx, presults, sent, answers, deltas, events,
                   connected, pushRest>>

NextPush == TestConnection \/ PushStart \/ PostBatch \/ PushSleep \/ PushReturn

SpecPush == InitPush /\ [][NextPush]_vars

\* The records of a list of batches, in order
RECURSIVE Flatten(_)
Flatten(batches) ==
    IF batches = <<>> THEN <<>> ELSE Head(batches) \o Flatten(Tail(batches))

\* The sum of f[i] over the indices of a sequence
RECURSIVE SumSeq(_)
SumSeq(f) == IF f = <<>> THEN 0 ELSE Head(f) + SumSeq(Tail(f))

\* ceil(n / d)
Ceil(n, d) == (n + d - 1) \div d

WhollyFailed(answer) ==
    answer.kind = "exception" \/ answer.status_code \notin {201, 207}

\* C21: the batches posted, put end to end, are the input in its order;
\* every batch but the last holds batch_size records; when push returns
\* ceil(n / batch_size) batches were posted, whatever the answers were.
C21_BatchesInOrder ==
    /\ Flatten(sent) = SubSeq(precords, 1, Len(Flatten(sent)))
    /\ \A i \in DOMAIN sent :
          /\ Len(sent[i]) \in 1..batch_size
          /\ i < Len(sent) => Len(sent[i]) = batch_size
    /\ ppc = "done" =>
          /\ Flatten(sent) = precords
          /\ Len(sent) = Ceil(Len(precords), batch_size)

\* A push of two batches returned, the first a full batch that failed
\* whole, the second a short batch that was created.
C21_Witness ==
    /\ ppc = "done" /\ Len(sent) = 2 /\ batch_size = 3
    /\ Len(sent[1]) = 3 /\ Len(sent[2]) = 1
    /\ answers[1] = TimedOut
    /\ deltas[1].failed = 3 /\ deltas[2].created = 1

\* C22: a batch answered 207 with r results and e errors adds r to
\* created, e to failed and e error messages; a batch answered 201 with r
\* results adds r to created and nothing else.
C22_PartialSuccess ==
    /\ \A i \in DOMAIN answers :
          (answers[i].kind = "response" /\ answers[i].status_code \in {201, 207}) =>
              LET r == Len(Get(answers[i].data, "results", <<>>))
                  e == IF answers[i].status_code = 207
                       THEN Len(Get(answers[i].data, "errors", <<>>)) ELSE 0
              IN  /\ deltas[i].created = r
                  /\ deltas[i].failed = e
                  /\ Len(deltas[i].errors) = e
    /\ presults.created = SumSeq([i \in DOMAIN deltas |-> deltas[i].created])
    /\ presults.failed = SumSeq([i \in DOMAIN deltas |-> deltas[i].failed])
    /\ presults.errors = Flatten([i \in DOMAIN deltas |-> deltas[i].errors])

\* A push of one batch of ten records, answered 207 with 7 results and 3
\* errors, returned with created 7, failed 3 and 3 error messages.
C22_Witness ==
    /\ ppc = "done" /\ Len(precords) = 10 /\ Len(sent) = 1
    /\ answers[1].kind = "response" /\ answers[1].status_code = 207
    /\ Len(answers[1].data.results) = 7 /\ Len(answers[1].data.errors) = 3
    /\ presults.created = 7 /\ presults.failed = 3 /\ Len(presults.errors) = 3

\* C23: a batch answered with another status than 201 and 207, or whose
\* request fails in transport, adds its size to failed, nothing to created
\* and one error message; push goes on.
C23_BatchFailure ==
    /\ \A i \in DOMAIN answers :
          WhollyFailed(answers[i]) =>
              /\ deltas[i].created = 0
              /\ deltas[i].failed = Len(sent[i])
              /\ Len(deltas[i].errors) = 1
    /\ ppc \in {"start", "loop", "sleep", "done"}
    /\ (ppc = "loop" /\ pidx < Len(precords)) => ENABLED PostBatch

\* A push returned all of whose batches failed whole, by a timeout, a 400
\* whose body is cut to 200 characters and a 200.
C23_Witness ==
    /\ ppc = "done" /\ Len(sent) = 2 /\ batch_size = 2 /\ Len(precords) = 4
    /\ answers[1] = TimedOut /\ answers[2].kind = "response"
    /\ answers[2].status_code = 400
    /\ presults.created = 0 /\ presults.failed = 4
    /\ presults.errors[1] = TimedOut.text
    /\ Len(presults.errors[2]) = Len("HTTP 400: ") + TextLimit
    /\ Len(presults.errors) = 2

\* C24: posts and sleeps alternate, beginning and ending with a post: a
\* push of k >= 1 batches sleeps k - 1 times, and a push of no records
\* neither posts nor sleeps.
C24_Throttle ==
    /\ \A j \in DOMAIN events : events[j] = IF j % 2 = 1 THEN "post" ELSE "sleep"
    /\ ppc = "done" =>
          /\ Len(SelectSeq(events, LAMBDA ev : ev = "post"))
                = Ceil(Len(precords), batch_size)
          /\ precords = <<>> => events = <<>>
          /\ precords # <<>> =>
                /\ events[Len(events)] = "post"
                /\ Len(SelectSeq(events, LAMBDA ev : ev = "sleep"))
                      = Ceil(Len(precords), batch_size) - 1

\* A push of three batches, the second failed, returned after two sleeps.
C24_Witness ==
    /\ ppc = "done" /\ Len(sent) = 3
    /\ WhollyFailed(answers[2])
    /\ events = <<"post", "sleep", "post", "sleep", "post">>

\* Every 201 carries as many results as the batch has records, every 207
\* results and errors that add up to the batch
WellBehaved ==
    \A i \in DOMAIN answers :
        (answers[i].kind = "response" /\ answers[i].status_code \in {201, 207}) =>
            Len(Get(answers[i].data, "results", <<>>))
              + (IF answers[i].status_code = 207
                 THEN Len(Get(answers[i].data, "errors", <<>>)) ELSE 0)
            = Len(sent[i])

\* C30: under a well-behaved provider, when push returns created + failed
\* is the number of input records and there is one error message per error
\* of a 207 and one per batch failed whole; test_connection leaves the
\* totals as they are.
C30_TotalsConserved ==
    /\ ppc = "start" => presults = [created |-> 0, failed |-> 0, errors |-> <<>>]
    /\ (ppc = "done" /\ WellBehaved) =>
          /\ presults.created + presults.failed = Len(precords)
          /\ Len(presults.errors) =
                SumSeq([i \in DOMAIN answers |->
                          IF WhollyFailed(answers[i]) THEN 1
                          ELSE IF answers[i].status_code = 207
                          THEN Len(Get(answers[i].data, "errors", <<>>)) ELSE 0])

\* A push of four batches answered 201, 207, 400 and by a timeout returned
\* after a connection check that failed.
C30_Witness ==
    /\ ppc = "done" /\ WellBehaved /\ connected = "no" /\ Len(answers) = 4
    /\ \E i, j, k, l \in DOMAIN answers :
          /\ answers[i] = TimedOut
          /\ answers[j].kind = "response" /\ answers[j].status_code = 400
          /\ answers[k].kind = "response" /\ answers[k].status_code = 201
          /\ answers[l].kind = "response" /\ answers[l].status_code = 207
          /\ Len(answers[l].data.errors) = 1
    /\ presults.created = 1 /\ presults.failed = 3 /\ Len(presults.errors) = 3


(***************************************************************************)
(* YelpScraper.search_restaurants: the search-results pages are requested  *)
(* by offset and the business links of each page are made into records.    *)
(***************************************************************************)
MaxYelpLimit == 3

\* "start += 10"
PageStep == 10

\* the bounds of "len(name) < 2 or len(name) > 100"
NameMinLen == 2
NameMaxLen == 100

\* href=re.compile(r"^/biz/[^?]+"): the anchors find_all keeps
BizLinks(page) ==
    SelectSeq(page, LAMBDA node :
        /\ node.tag = "a" /\ "href" \in DOMAIN node
        /\ StartsWith(node.href, "/biz/")
        /\ Len(node.href) > Len("/biz/")
        /\ Char(node.href, Len("/biz/") + 1) # "?")

\* the loop of _parse_search_results over biz_links, with the set seen_urls
\* of the one page
RECURSIVE ParseLinks(_, _)
ParseLinks(biz_links, seen_urls) ==
    IF biz_links = <<>> THEN <<>>
    ELSE LET link     == Head(biz_links)
             biz_path == SplitFirst(link.href, "?")
             name     == StripStr(link.text)
         IN  IF biz_path \in seen_urls
                 THEN ParseLinks(Tail(biz_links), seen_urls)
             ELSE IF name = "" \/ Len(name) < NameMinLen \/ Len(name) > NameMaxLen
                 THEN ParseLinks(Tail(biz_links), seen_urls)
             ELSE <<[venue_name |-> name,
                     yelp_url |-> "https://www.yelp.com" \o biz_path,
                     source |-> "yelp"]>>
                  \o ParseLinks(Tail(biz_links), seen_urls \cup {biz_path})

\* _parse_search_results(soup)
ParseSearchResults(page) == ParseLinks(BizLinks(page), {})

\* Pages the site may answer with.
YelpPageAlphaBeta ==
    <<Anchor("/biz/alpha?osq=Restaurants", ""), Anchor("/biz/alpha?osq=Restaurants", " Alpha "),
      Anchor("/biz/alpha", "Alpha Grill"), TextNode("Sponsored"),
      Anchor("/search?find_desc=Restaurants&start=10", "Next"),
      Anchor("/biz/beta", "Beta"), Anchor("/biz/?x", "Broken"), Anchor("/biz/b", "B")>>
YelpPageGamma == <<Anchor("/biz/gamma", "Gamma"), Anchor("/biz/long", LongText)>>
YelpPageBetaDelta == <<Anchor("/biz/beta?hrid=1", "Beta"), Anchor("/biz/delta", "Delta")>>
YelpPageNoLinks == <<TextNode("No results"), AnchorNoHref("Help")>>
YelpPages == {YelpPageAlphaBeta, YelpPageGamma, YelpPageBetaDelta, YelpPageNoLinks}

\* the request raised, or raise_for_status() did
YelpFailure == <<[tag |-> "failure"]>>

yelpRest == <<mergeVars, dedupVars, pageVars, scrapeVars, detailVars, crawlVars, extractVars,
              pushVars, webVars>>

InitYelp ==
    /\ ymax \in 1..MaxYelpLimit
    /\ ysite \in [1..MaxYelpLimit -> YelpPages \cup {YelpFailure}]
    /\ ystart = 0 /\ yrestaurants = <<>> /\ yrequests = <<>> /\ ypc = "loop"
    /\ MergeIdle /\ DedupIdle /\ PageIdle /\ ScrapeIdle /\ DetailIdle /\ CrawlIdle
    /\ ExtractIdle /\ PushIdle /\ WebIdle

\* what the site answers to the request with "start": start
YelpAnswer == ysite[(ystart \div PageStep) + 1]

\* the request fails: logged, break
YelpRequestFails ==
    /\ ypc = "loop" /\ Len(yrestaurants) < ymax
    /\ YelpAnswer = YelpFailure
    /\ yrequests' = Append(yrequests, ystart)
    /\ ypc' = "returned"
    /\ UNCHANGED <<ymax, ysite, ystart, yrestaurants, yelpRest>>

\* the page has no result: break
YelpNoResults ==
    /\ ypc = "loop" /\ Len(yrestaurants) < ymax
    /\ YelpAnswer # YelpFailure /\ ParseSearchResults(YelpAnswer) = <<>>
    /\ yrequests' = Append(yrequests, ystart)
    /\ ypc' = "returned"
    /\ UNCHANGED <<ymax, ysite, ystart, yrestaurants, yelpRest>>

\* the page has results: they are appended up to max_results; start += 10
YelpPage ==
    /\ ypc = "loop" /\ Len(yrestaurants) < ymax
    /\ YelpAnswer # YelpFailure /\ ParseSearchResults(YelpAnswer) # <<>>
    /\ yrequests' = Append(yrequests, ystart)
    /\ LET results == ParseSearchResults(YelpAnswer)
           take    == Min(Len(results), ymax - Len(yrestaurants))
       IN  yrestaurants' = yrestaurants \o SubSeq(results, 1, take)
    /\ ystart' = ystart + PageStep
    /\ UNCHANGED <<ymax, ysite, ypc, yelpRest>>

\* "while len(restaurants) < max_results" is false: return restaurants
YelpLimitReached ==
    /\ ypc = "loop" /\ Len(yrestaurants) >= ymax
    /\ ypc' = "returned"
    /\ UNCHANGED <<ymax, ysite, ystart, yrestaurants, yrequests, yelpRest>>

NextYelp == YelpRequestFails \/ YelpNoResults \/ YelpPage \/ YelpLimitReached

SpecYelp == InitYelp /\ [][NextYelp]_vars

\* the business paths of the page the i-th request was answered with
PathsOfRequest(i) ==
    LET answer == ysite[i]
    IN  IF answer = YelpFailure THEN {}
        ELSE {ParseSearchResults(answer)[k].yelp_url :
                 k \in DOMAIN ParseSearchResults(answer)}

\* the paths of the i-th page that no earlier page had
NewPaths(i) == PathsOfRequest(i) \ UNION {PathsOfRequest(j) : j \in 1..(i - 1)}

\* the site answers every offset with the same page, which has results
SamePageEverywhere ==
    /\ \A i \in DOMAIN ysite : ysite[i] = ysite[1]
    /\ ysite[1] # YelpFailure /\ ParseSearchResults(ysite[1]) # <<>>

\* C27: the offsets requested are 0, 10, 20, ...; a request is followed by
\* another only if its page had a business path that no earlier page had and
\* the limit is not reached; against a site that answers every offset with
\* the same non-empty page the search makes at most two requests and returns
\* no business path twice.
C27_StopsOnNoNewLinks ==
    /\ \A i \in DOMAIN yrequests : yrequests[i] = PageStep * (i - 1)
    /\ \A i \in 1..(Len(yrequests) - 1) : NewPaths(i) # {}
    /\ (ypc = "returned" /\ SamePageEverywhere) =>
          /\ Len(yrequests) <= 2
          /\ \A i, j \in DOMAIN yrestaurants :
                i # j => yrestaurants[i].yelp_url # yrestaurants[j].yelp_url


(***************************************************************************)
(* WebSearchScraper.search_restaurants: three queries to the search        *)
(* engine, each read for candidate names; the three lists are then joined  *)
(* without repeating a name.  max_results is at least 1 here.              *)
(***************************************************************************)
MaxWebLimit == 3

\* <div class="result"> holding <a class="result__a" href=...>title</a>
ResultDiv(href, title) == [tag |-> "result", href |-> href, text |-> title]
\* <div class="result"> with no title anchor
ResultDivBare == [tag |-> "result"]

\* the suffixes of _clean_name, in its order (the one made of a long dash is
\* left out: the pages of the model hold none)
Separators == <<" - TripAdvisor", " - Michelin", " | ", " - a MICHELIN">>

\* _clean_name(text)
RECURSIVE CleanFrom(_, _)
CleanFrom(text, k) ==
    IF k > Len(Separators) THEN StripStr(text)
    ELSE IF Contains(text, Separators[k])
         THEN CleanFrom(SplitFirst(text, Separators[k]), k + 1)
         ELSE CleanFrom(text, k + 1)
CleanName(text) == CleanFrom(text, 1)

\* soup.find_all("a", href=True): the anchors of the page, those of the
\* results included
LinksWithHref(page) ==
    SelectSeq(page, LAMBDA node : node.tag \in {"a", "result"} /\ "href" \in DOMAIN node)

WebRecord(name, url, source) == [venue_name |-> name, website |-> url, source |-> source]

\* what the loop of _search_tripadvisor appends when nothing stops it
RECURSIVE TripadvisorCandidates(_)
TripadvisorCandidates(links) ==
    IF links = <<>> THEN <<>>
    ELSE LET text == StripStr(Head(links).text)
         IN  (IF Contains(Head(links).href, "Restaurant_Review") /\ Len(text) > 3
              THEN <<WebRecord(CleanName(text), "", "tripadvisor")>> ELSE <<>>)
             \o TripadvisorCandidates(Tail(links))

\* what the loop of _search_michelin appends when nothing stops it
RECURSIVE MichelinCandidates(_)
MichelinCandidates(links) ==
    IF links = <<>> THEN <<>>
    ELSE LET text == StripStr(Head(links).text)
             name == CleanName(text)
         IN  (IF /\ Contains(Head(links).href, "/restaurant/") /\ Len(text) > 3
                 /\ LowerStr(name) \notin {"restaurant", "restaurants"}
              THEN <<WebRecord(name, "", "michelin")>> ELSE <<>>)
             \o MichelinCandidates(Tail(links))

skip_domains == <<"tripadvisor", "yelp.com", "facebook.com", "instagram.com",
                  "google.com", "youtube.com", "twitter.com", "wikipedia.org">>

\* what the loop of _search_directories appends when nothing stops it
RECURSIVE DirectoryCandidates(_)
DirectoryCandidates(divs) ==
    IF divs = <<>> THEN <<>>
    ELSE LET div    == Head(divs)
             title  == IF "text" \in DOMAIN div THEN StripStr(div.text) ELSE ""
             href   == IF "href" \in DOMAIN div THEN div.href ELSE ""
             domain == IF StartsWith(href, "http") THEN Netloc(href) ELSE ""
             keep   == /\ "href" \in DOMAIN div
                       /\ \A k \in DOMAIN skip_domains : ~Contains(domain, skip_domains[k])
                       /\ Len(title) > 2
         IN  (IF keep
              THEN <<WebRecord(CleanName(title),
                               IF StartsWith(href, "http") THEN href ELSE "", "web_search")>>
              ELSE <<>>)
             \o DirectoryCandidates(Tail(divs))

\* "if len(restaurants) >= max_results: break" after each append
Truncated(list, limit) == SubSeq(list, 1, Min(Len(list), limit))

\* _fetch_url gave None or an empty text, or the query raised
WebFailure == <<[tag |-> "failure"]>>

\* the candidates the page of the q-th query holds
Candidates(q, answer) ==
    IF answer = WebFailure THEN <<>>
    ELSE IF q = 1 THEN TripadvisorCandidates(LinksWithHref(answer))
    ELSE IF q = 2 THEN MichelinCandidates(LinksWithHref(answer))
    ELSE DirectoryCandidates(SelectSeq(answer, LAMBDA node : node.tag = "result"))

\* _search_tripadvisor, _search_michelin, _search_directories
SearchQuery(q, answer, limit) == Truncated(Candidates(q, answer), limit)

\* r.venue_name.lower().strip()
WebKey(r) == StripStr(LowerStr(r.venue_name))

\* the loops of search_restaurants over sources, and restaurants[:max_results]
RECURSIVE JoinSources(_, _, _)
JoinSources(flat, sofar, limit) ==
    IF flat = <<>> THEN Truncated(sofar, limit)
    ELSE IF Len(sofar) >= limit THEN JoinSources(Tail(flat), sofar, limit)
    ELSE IF \E k \in DOMAIN sofar : WebKey(sofar[k]) = WebKey(Head(flat))
         THEN JoinSources(Tail(flat), sofar, limit)
         ELSE JoinSources(Tail(flat), Append(sofar, Head(flat)), limit)

\* Pages the search engine may answer with.
WebPageReviews ==
    <<Anchor("https://duckduckgo.com/about", "About DuckDuckGo"),
      ResultDiv("https://www.tripadvisor.com/Restaurant_Review-g1-d1-Luigi.html",
                "Luigi - TripAdvisor"),
      ResultDiv("https://www.tripadvisor.com/Restaurant_Review-g1-d1-Luigi.html#REVIEWS",
                " LUIGI | Menu, Prices "),
      Anchor("https://www.tripadvisor.com/Restaurant_Review-g1-d2-Abc.html", "Abc"),
      ResultDiv("https://www.tripadvisor.com/Restaurant_Review-g1-d3-Marco.html",
                "Marco Polo - TripAdvisor"),
      ResultDivBare>>
WebPageGuide ==
    <<ResultDiv("https://guide.michelin.com/en/restaurant/", "Restaurants - Michelin"),
      ResultDiv("https://guide.michelin.com/en/restaurant/marco-polo",
                "marco polo - a MICHELIN Guide Restaurant"),
      TextNode("Ad"),
      ResultDiv("https://guide.michelin.com/en/restaurant/nobu", "Nobu - Michelin Guide")>>
WebPageSites ==
    <<ResultDiv("https://www.tripadvisor.com/Restaurants-g1", "The 10 best restaurants"),
      ResultDiv("https://luigi.example/restaurant/home", "luigi | Home"),
      ResultDiv("//duckduckgo.com/l/?uddg=osteria", "Osteria Due"),
      ResultDiv("https://www.yelp.com/biz/nobu", "Nobu - Yelp"),
      ResultDiv("https://nobu.example/", "Nobu")>>
WebPageEmpty == <<TextNode("No results.")>>
WebAnswers == {WebPageReviews, WebPageGuide, WebPageSites, WebPageEmpty, WebFailure}

webRest == <<mergeVars, dedupVars, pageVars, scrapeVars, detailVars, crawlVars, extractVars,
             pushVars, yelpVars>>

InitWebSearch ==
    /\ wmax \in 1..MaxWebLimit
    /\ wanswers \in [1..3 -> WebAnswers]
    /\ wsources = <<>> /\ wresult = <<>> /\ wpc = "queries"
    /\ MergeIdle /\ DedupIdle /\ PageIdle /\ ScrapeIdle /\ DetailIdle /\ CrawlIdle
    /\ ExtractIdle /\ PushIdle /\ YelpIdle

\* self._search_tripadvisor(location, max_results)
SearchTripadvisor ==
    /\ wpc = "queries" /\ Len(wsources) = 0
    /\ wsources' = Append(wsources, SearchQuery(1, wanswers[1], wmax))
    /\ UNCHANGED <<wmax, wanswers, wresult, wpc, webRest>>

\* self._search_michelin(location, max_results)
SearchMichelin ==
    /\ wpc = "queries" /\ Len(wsources) = 1
    /\ wsources' = Append(wsources, SearchQuery(2, wanswers[2], wmax))
    /\ UNCHANGED <<wmax, wanswers, wresult, wpc, webRest>>

\* self._search_directories(location, max_results)
SearchDirectories ==
    /\ wpc = "queries" /\ Len(wsources) = 2
    /\ wsources' = Append(wsources, SearchQuery(3, wanswers[3], wmax))
    /\ wpc' = "join"
    /\ UNCHANGED <<wmax, wanswers, wresult, webRest>>

\* the loops over sources and the return
JoinAndReturn ==
    /\ wpc = "join"
    /\ wresult' = JoinSources(wsources[1] \o wsources[2] \o wsources[3], <<>>, wmax)
    /\ wpc' = "returned"
    /\ UNCHANGED <<wmax, wanswers, wsources, webRest>>

NextWebSearch == SearchTripadvisor \/ SearchMichelin \/ SearchDirectories \/ JoinAndReturn

SpecWebSearch == InitWebSearch /\ [][NextWebSearch]_vars

\* all the candidates of the three pages, in query order then page order
AllCandidates ==
    Candidates(1, wanswers[1]) \o Candidates(2, wanswers[2]) \o Candidates(3, wanswers[3])

DistinctKeys == {WebKey(AllCandidates[k]) : k \in DOMAIN AllCandidates}

\* C26: the list returned holds no two records with the same lower-cased
\* trimmed name, at most max_results records, and as many records as there
\* are distinct such names among all the candidates of the three pages, up to
\* max_results.
C26_DedupBeforeLimit ==
    wpc = "returned" =>
        /\ \A i, j \in DOMAIN wresult : i # j => WebKey(wresult[i]) # WebKey(wresult[j])
        /\ Len(wresult) <= wmax
        /\ Len(wresult) = Min(wmax, Cardinality(DistinctKeys))

====
